---- MODULE Spec2Model ----
(***************************************************************************)
(* Model of the curve-synthesis core of Meridian-V2.1:                     *)
(*   backend/line_ac_dc.py   split_dateline, generate_horizon_line(s)      *)
(*   backend/spline_utils.py parametric_spline                             *)
(*   backend/line_aspects.py _generate_asc_aspect_line (assembly part)     *)
(*                                                                         *)
(* Angles are integer degrees.  A point is a pair <<lon, lat>>.  Python    *)
(* sequences are 1-based here, so seq[0] of the source is seq[1].          *)
(* Every function of the source is an operator that returns a record with  *)
(* the field exc ("none" or the name of the exception that leaves the      *)
(* function) beside the returned value; the variables hold the last call   *)
(* of each function (its arguments and its outcome).                       *)
(***************************************************************************)
EXTENDS Integers, Sequences, FiniteSets, TLC

VARIABLES sd, ps, hz, aa, hl, rs, al, pr, mi, mr, ds, ad, hd, bs, ss

vars == <<sd, ps, hz, aa, hl, rs, al, pr, mi, mr, ds, ad, hd, bs, ss>>

\* ------------------------------------------------------------------ bounds
\* longest point sequence handed to split_dateline
MaxSeqLen == 4
\* longest longitude / latitude array handed to parametric_spline
MaxPts == 4
\* largest density (number of output samples) requested
MaxDensity == 3
\* longest latitude grid (lat_steps)
MaxGrid == 3
\* most latitudes the ASC root search solved for one line
MaxSolved == 4
\* longest polyline handed to the downsampling step
MaxLineLen == 400
\* most HumanDesignLayer objects constructed in one behaviour
MaxConstructions == 2
\* most planets in chart_data["planets"]
MaxPlanets == 2
\* most latitudes the ASC root search is run for
MaxLats == 3

\* ------------------------------------------------------------- arithmetic
Abs(x) == IF x < 0 THEN -x ELSE x

Max2(a, b) == IF a > b THEN a ELSE b

\* all sequences over S of length lo..hi
SeqsOf(S, lo, hi) == UNION {[1..n -> S] : n \in lo..hi}

\* The one element of a singleton set.  TheOne({e(x) : x \in {v}}) is e(v)
\* with the local x evaluated once, however often e reads it.
TheOne(S) == CHOOSE r \in S : TRUE

\* ((x + 180) % 360) - 180, the wrap used by every generator
Wrap(x) == ((x + 180) % 360) - 180

\* ========================================================= split_dateline
\* default of the max_jump parameter
DefaultMaxJump == 45

\* all(abs(a[0] - b[0]) <= max_jump for a, b in zip(seg, seg[1:]))
NoZigzag(seg, max_jump) ==
    \A i \in 1..(Len(seg) - 1) : Abs(seg[i][1] - seg[i + 1][1]) <= max_jump

\* The for loop, one run at a time.  seg[-1] is in every iteration the
\* input point before the current one (seg is emptied only just before the
\* current point is appended), so the run that starts at index start ends
\* before the first later index i with |lon[i] - lon[i-1]| > 180; the run is
\* appended to segments when it passes the zigzag filter, and the scan goes
\* on from i.  The last run is closed by the statements after the loop.
\* a plausible slip: the run is also cut at a jump of more than 90 degrees
NextJumpOver90(seq, start) ==
    LET jumps == {i \in (start + 1)..Len(seq) :
                     Abs(seq[i][1] - seq[i - 1][1]) > 90}
    IN  IF jumps = {} THEN Len(seq) + 1
        ELSE CHOOSE m \in jumps : \A j \in jumps : m <= j

NextJump(seq, start) ==
    LET jumps == {i \in (start + 1)..Len(seq) :
                     Abs(seq[i][1] - seq[i - 1][1]) > 180}
    IN  IF jumps = {} THEN Len(seq) + 1
        ELSE CHOOSE m \in jumps : \A j \in jumps : m <= j

RECURSIVE SplitFrom(_, _, _, _)
SplitFrom(seq, start, segments, max_jump) ==
    TheOne({TheOne({
        LET kept == IF NoZigzag(seg, max_jump) THEN Append(segments, seg)
                                               ELSE segments
        IN  IF stop > Len(seq) THEN kept
            ELSE SplitFrom(seq, stop, kept, max_jump)
        : seg \in {SubSeq(seq, start, stop - 1)}})
        : stop \in {NextJump(seq, start)}})

\* a plausible slip: the run still open when the input ends is appended
\* without the zigzag filter
RECURSIVE SplitFromNoFinalFilter(_, _, _, _)
SplitFromNoFinalFilter(seq, start, segments, max_jump) ==
    TheOne({TheOne({
        LET kept == IF NoZigzag(seg, max_jump) THEN Append(segments, seg)
                                               ELSE segments
        IN  IF stop > Len(seq) THEN Append(segments, seg)
            ELSE SplitFromNoFinalFilter(seq, stop, kept, max_jump)
        : seg \in {SubSeq(seq, start, stop - 1)}})
        : stop \in {NextJump(seq, start)}})

split_dateline_NoFinalFilter(seq, max_jump) ==
    IF Len(seq) = 0
    THEN [exc |-> "IndexError", segments |-> <<>>]
    ELSE [exc |-> "none",
          segments |-> SplitFromNoFinalFilter(seq, 1, <<>>, max_jump)]

\* split_dateline(seq, max_jump): seq[0] of an empty sequence raises
split_dateline(seq, max_jump) ==
    IF Len(seq) = 0
    THEN [exc |-> "IndexError", segments |-> <<>>]
    ELSE [exc |-> "none", segments |-> SplitFrom(seq, 1, <<>>, max_jump)]

\* the "Dateline split failed" assertion of both line generators
DatelineAssert(segments) ==
    \A s \in 1..Len(segments) : NoZigzag(segments[s], 180)


\* ====================================================== parametric_spline
\* k = 3, the cubic spline degree
SplineDegree == 3
\* a path spanning more than this many degrees of longitude is periodic
PeriodicSpan == 300

\* np.unwrap(np.radians(p)) in degrees: a step of 180 or more is replaced by
\* its representative in (-180, 180], the correction accumulating
RECURSIVE UnwrapFrom(_, _, _, _)
UnwrapFrom(p, i, corr, out) ==
    IF i > Len(p)
    THEN out
    ELSE LET dd == p[i] - p[i - 1]
             m0 == ((dd + 180) % 360) - 180
             ddmod == IF m0 = -180 /\ dd > 0 THEN 180 ELSE m0
             ph == IF Abs(dd) < 180 THEN 0 ELSE ddmod - dd
         IN  UnwrapFrom(p, i + 1, corr + ph, Append(out, p[i] + corr + ph))

Unwrap(p) == IF Len(p) = 0 THEN <<>> ELSE UnwrapFrom(p, 2, 0, <<p[1]>>)

\* np.interp(unew, np.linspace(0, 1, len(f)), f) at unew[j], j = 0..density-1,
\* unew = np.linspace(0, 1, density); the value is rounded down to a degree
InterpAt(j, density, f) ==
    IF density = 1
    THEN f[1]
    ELSE LET n == Len(f)
             num == j * (n - 1)
             k == num \div (density - 1)
             r == num % (density - 1)
         IN  IF k + 1 >= n
             THEN f[n]
             ELSE f[k + 1] + ((f[k + 2] - f[k + 1]) * r) \div (density - 1)

\* a plausible slip: one sample per anchor instead of density samples
LinearInterpPerAnchor(f, density) == f

\* the linear interpolation of both fallbacks, density samples
LinearInterp(f, density) == [j \in 1..density |-> InterpAt(j - 1, density, f)]

\* ((f + 180) % 360) - 180 on an array
WrapAll(f) == TheOne({[j \in 1..Len(g) |-> Wrap(g[j])] : g \in {f}})

\* What splprep / splev (scipy) give for one call: the solve raises, or splev
\* returns density samples.  The values of the samples are the library's
\* business: any sequence over RawSamples stands for them, before wrapping.
RawSamples == {<<-190, 10>>, <<170, 0>>, <<365, -10>>}
SolveOutcomes(density) ==
    {[ok |-> FALSE, pts |-> <<>>]}
        \cup {[ok |-> TRUE, pts |-> q] : q \in [1..density -> RawSamples]}

\* lines 52-76: <<lons_fit, lats_fit>>, the unwrapped longitudes and the
\* latitudes, with the first point appended when the path is periodic
FitPoints(lons, lats) ==
    TheOne({LET per == Abs(lons_unwrapped[Len(lons_unwrapped)] - lons_unwrapped[1])
                          > PeriodicSpan
            IN  IF per THEN <<Append(lons_unwrapped, lons_unwrapped[1]),
                              Append(lats, lats[1])>>
                       ELSE <<lons_unwrapped, lats>>
            : lons_unwrapped \in {Unwrap(lons)}})

\* lines 77-102: the short-input path, the spline and its fallback
SplineFit(lons_fit, lats_fit, density, solve) ==
    IF Len(lons_fit) < SplineDegree + 1
    THEN IF Len(lons_fit) = 1
         THEN [exc |-> "none", lons |-> lons_fit, lats |-> lats_fit,
               path |-> "single"]
         ELSE [exc |-> "none",
               lons |-> WrapAll(LinearInterp(lons_fit, density)),
               lats |-> LinearInterp(lats_fit, density),
               path |-> "linear"]
    ELSE IF solve.ok
         THEN [exc |-> "none",
               lons |-> WrapAll([j \in 1..density |-> solve.pts[j][1]]),
               lats |-> [j \in 1..density |-> solve.pts[j][2]],
               path |-> "spline"]
         ELSE [exc |-> "none",
               lons |-> WrapAll(LinearInterp(lons_fit, density)),
               lats |-> LinearInterp(lats_fit, density),
               path |-> "fallback"]

\* parametric_spline(lons, lats, density); solve is the outcome of the spline
\* solve, read only on the path that calls it.  The cumulative geodesic
\* distances of lines 36-47 are sums of non-negative distances, so the
\* defensive sort never runs; the loop's lats[i] raises when lats is shorter.
parametric_spline(lons, lats, density, solve) ==
    IF Len(lons) > 1 /\ Len(lats) < Len(lons)
    THEN [exc |-> "IndexError", lons |-> <<>>, lats |-> <<>>, path |-> "raise"]
    ELSE IF Len(lons) = 0 \/ Len(lats) = 0 \/ Len(lons) # Len(lats)
    THEN [exc |-> "none", lons |-> <<>>, lats |-> <<>>, path |-> "empty"]
    ELSE TheOne({SplineFit(fit[1], fit[2], density, solve) :
                    fit \in {FitPoints(lons, lats)}})

\* the path to the spline solve is taken: equal lengths, 4 or more fit points
ReachesSolve(lons, lats) ==
    /\ Len(lons) = Len(lats)
    /\ Len(lons) >= 1
    /\ Len(FitPoints(lons, lats)[1]) >= SplineDegree + 1


\* ================================================== generate_horizon_line
\* The latitudes and declinations the model draws from, and 1000 * tan of
\* each (np.tan(np.radians(a)), odd in a).
TanMilli(a) ==
    LET t == CASE Abs(a) = 0 -> 0
               [] Abs(a) = 1 -> 17
               [] Abs(a) = 20 -> 364
               [] Abs(a) = 30 -> 577
               [] Abs(a) = 60 -> 1732
               [] Abs(a) = 80 -> 5671
               [] Abs(a) = 89 -> 57290
    IN  IF a < 0 THEN -t ELSE t

\* cosH = -np.tan(phi) * np.tan(np.radians(delta)), in 1/1000
CosHMilli(lat, delta) ==
    LET p == TanMilli(lat) * TanMilli(delta)
    IN  IF p >= 0 THEN -(p \div 1000) ELSE (-p) \div 1000

\* a plausible slip: the visibility test compares the wrong way round
VisibleInverted(lat, delta) == Abs(CosHMilli(lat, delta)) >= 1000

\* vis = np.abs(cosH) <= 1
Visible(lat, delta) == Abs(CosHMilli(lat, delta)) <= 1000

\* np.degrees(np.arccos(np.clip(c, -1, 1))), to the nearest degree, for the
\* values of cosH the latitudes and declinations above give
ArccosDeg(c) ==
    LET x == IF c < -1000 THEN -1000 ELSE IF c > 1000 THEN 1000 ELSE c
    IN  CASE x = 0 -> 90
          [] x = -6 -> 90
          [] x = 6 -> 90
          [] x = -973 -> 180
          [] x = 973 -> 0
          [] x = -210 -> 102
          [] x = 210 -> 78
          [] x = -630 -> 129
          [] x = 630 -> 51
          [] x = -1000 -> 180
          [] x = 1000 -> 0

\* a plausible slip: the visibility mask is not applied
LatVisUnmasked(lat_steps, delta) == lat_steps

\* lat_vis = lat_steps[vis]
LatVis(lat_steps, delta) ==
    LET vis(lat) == Visible(lat, delta)
    IN  SelectSeq(lat_steps, vis)

Reverse(q) == [i \in 1..Len(q) |-> q[Len(q) + 1 - i]]

\* a plausible slip: the set branch is appended whole
KeepAll(q) == q

\* pts_dc[1:], the set branch without its first point
DropFirst(q) == IF Len(q) = 0 THEN <<>> ELSE Tail(q)

Zip(a, b) == [i \in 1..(IF Len(a) < Len(b) THEN Len(a) ELSE Len(b)) |-> <<a[i], b[i]>>]

\* the result of generate_horizon_line: the exception that left it or its
\* return value (ret "None" or "Feature", "raised" with an exception), whether warnings.warn was called,
\* the feature's geometry (paths: the one path of a LineString or the paths
\* of a MultiLineString), its "segments" property (0-based indices, as in
\* the source) and the locals lat_vis_sorted, pts and len(coords)
HorizonResult(exc, ret, warned, gtype, paths, segs, lat_vis, pts, n) ==
    [exc |-> exc, ret |-> ret, warned |-> warned, geomType |-> gtype,
     paths |-> paths, segs |-> segs, lat_vis |-> lat_vis, pts |-> pts,
     n_coords |-> n]

NoSegs == [ac_end |-> -1, dc_start |-> -1, dc_end |-> -1]

Lons(pts) == [i \in 1..Len(pts) |-> pts[i][1]]
Lats(pts) == [i \in 1..Len(pts) |-> pts[i][2]]

\* lines 72-80: the anchor path pts of the sorted visible latitudes
HorizonPath(delta, alpha, gst, lat_vis_sorted) ==
    LET H0 == [i \in 1..Len(lat_vis_sorted) |->
                  ArccosDeg(CosHMilli(lat_vis_sorted[i], delta))]
        lon_rise == [i \in 1..Len(lat_vis_sorted) |->
                        (((alpha - H0[i]) - gst + 540) % 360) - 180]
        lon_set == [i \in 1..Len(lat_vis_sorted) |->
                       (((alpha + H0[i]) - gst + 540) % 360) - 180]
        pts_ac == Zip(lon_rise, lat_vis_sorted)
        pts_dc == Zip(Reverse(lon_set), Reverse(lat_vis_sorted))
    IN  pts_ac \o DropFirst(pts_dc)

\* lines 85-112: from the fitted curve sp to the feature; len(pts_ac) is
\* len(lat_vis_sorted)
HorizonFromSpline(lat_vis_sorted, pts, sp) ==
    LET coords == Zip(sp.lons, sp.lats)
        split == split_dateline(coords, DefaultMaxJump)
        segments == split.segments
        ac_end == Len(lat_vis_sorted) - 1
        dc_start == ac_end + 1
        segs == [ac_end |-> ac_end, dc_start |-> dc_start,
                 dc_end |-> Len(coords) - 1]
    IN
    IF sp.exc # "none"
    THEN HorizonResult(sp.exc, "raised", FALSE, "none", <<>>, NoSegs,
                       lat_vis_sorted, pts, 0)
    ELSE IF split.exc # "none"
    THEN HorizonResult(split.exc, "raised", FALSE, "none", <<>>, NoSegs,
                       lat_vis_sorted, pts, Len(coords))
    ELSE IF ~DatelineAssert(segments)
    THEN HorizonResult("AssertionError", "raised", FALSE, "none", <<>>, NoSegs,
                       lat_vis_sorted, pts, Len(coords))
    ELSE IF Len(segments) = 1
    THEN HorizonResult("none", "Feature", FALSE, "LineString", <<segments[1]>>,
                       segs, lat_vis_sorted, pts, Len(coords))
    ELSE HorizonResult("none", "Feature", FALSE, "MultiLineString", segments,
                       segs, lat_vis_sorted, pts, Len(coords))

\* lines 81-83: the anchor path goes through parametric_spline
HorizonFromLatVis(delta, alpha, gst, lat_vis_sorted, density, solve) ==
    TheOne({
        TheOne({HorizonFromSpline(lat_vis_sorted, pts, sp) :
                   sp \in {parametric_spline(Lons(pts), Lats(pts), density, solve)}})
        : pts \in {HorizonPath(delta, alpha, gst, lat_vis_sorted)}})

\* generate_horizon_line(chart, planet, lat_steps, density) with
\* delta = chart['dec'][planet], alpha = chart['ra_deg'][planet],
\* gst = chart['gst_deg']; solve is the outcome of the spline solve
generate_horizon_line(delta, alpha, gst, lat_steps, density, solve) ==
    IF Abs(delta) > 90
    THEN HorizonResult("none", "None", TRUE, "none", <<>>, NoSegs, <<>>, <<>>, 0)
    ELSE IF \A i \in 1..Len(lat_steps) : ~Visible(lat_steps[i], delta)
    THEN HorizonResult("none", "None", FALSE, "none", <<>>, NoSegs, <<>>, <<>>, 0)
    ELSE TheOne({HorizonFromLatVis(delta, alpha, gst, lat_vis_sorted,
                                   density, solve) :
                    lat_vis_sorted \in {SortSeq(LatVis(lat_steps, delta), <)}})

\* the anchor path generate_horizon_line hands to parametric_spline
HorizonAnchors(delta, alpha, gst, lat_steps) ==
    IF Abs(delta) > 90 THEN <<>>
    ELSE TheOne({HorizonPath(delta, alpha, gst, lat_vis_sorted) :
                    lat_vis_sorted \in {SortSeq(LatVis(lat_steps, delta), <)}})


\* ======================================= _generate_asc_aspect_line, assembly
\* density=400 of the call of parametric_spline
AspectDensity == 400

\* lons[idx], lats[idx] with idx = np.argsort(lats), as points
SortByLat(pts) ==
    LET byLat(a, b) == a[2] < b[2]
    IN  SortSeq(pts, byLat)

\* a plausible slip: one-point segments are not filtered out
KeepSegments(segments) == segments

\* filtered_segments = [seg for seg in segments if len(seg) >= 2]
FilterSegments(segments) ==
    LET long(seg) == Len(seg) >= 2
    IN  SelectSeq(segments, long)

AspectResult(ret, gtype, paths, assert_ok) ==
    [exc |-> "none", ret |-> ret, geomType |-> gtype, paths |-> paths,
     assert_ok |-> assert_ok]

\* lines 334-369: from the fitted curve sp to the feature or None
AspectFromSpline(sp) ==
    IF sp.exc # "none"
    THEN AspectResult("None", "none", <<>>, TRUE)
    ELSE TheOne({
        LET filtered_segments == FilterSegments(split.segments)
        IN  IF split.exc # "none"
            THEN AspectResult("None", "none", <<>>, TRUE)
            ELSE IF ~DatelineAssert(split.segments)
            THEN AspectResult("None", "none", <<>>, FALSE)
            ELSE IF Len(filtered_segments) = 0
            THEN AspectResult("None", "none", <<>>, TRUE)
            ELSE IF Len(filtered_segments) = 1
            THEN AspectResult("Feature", "LineString",
                              <<filtered_segments[1]>>, TRUE)
            ELSE AspectResult("Feature", "MultiLineString",
                              filtered_segments, TRUE)
        : split \in {TheOne({split_dateline(coords, DefaultMaxJump) :
                                coords \in {Zip(sp.lons, sp.lats)}})}})

\* _generate_asc_aspect_line from "if len(lons) < 3" on: lons, lats are the
\* samples the root search accepted.  The whole body is inside
\* try / except Exception: return None, so no exception leaves it.
asc_aspect_assemble(lons, lats, solve) ==
    IF Len(lons) < 3
    THEN AspectResult("None", "none", <<>>, TRUE)
    ELSE TheOne({
        TheOne({AspectFromSpline(sp) :
                   sp \in {parametric_spline(Lons(sorted), Lats(sorted),
                                             AspectDensity, solve)}})
        : sorted \in {SortByLat(Zip(lons, lats))}})

\* ================================================= generate_horizon_lines
\* the names swe_id_map knows, among those the model uses
SweIdMap == {"Sun", "Moon", "Mars"}

\* display_name: pname, with " CCG" appended for a progressed planet
DisplayName(planet) ==
    IF planet.data_type = "progressed" THEN planet.name \o " CCG"
    ELSE planet.name

\* the first loop: the planets that get an entry in ra_deg / dec, in order
KnownPlanets(planets) ==
    LET known(planet) == planet.name \in SweIdMap
    IN  SelectSeq(planets, known)

\* the feature appended for one planet: generate_horizon_line's feature with
\* properties.planet set to the display name and data_type copied
HorizonFeature(planet, res) ==
    [planet |-> DisplayName(planet), data_type |-> planet.data_type,
     geomType |-> res.geomType, paths |-> res.paths, segs |-> res.segs]

\* ---------------------------------------------------------------- inputs
SplitLons == {-170, -100, -20, 10, 100, 170}
SplitPts == {<<l, 0>> : l \in SplitLons}
MaxJumps == {DefaultMaxJump, 90, 200}

NoCall == [op |-> "none"]

\* no function has been called yet
Idle ==
    /\ sd = NoCall /\ ps = NoCall /\ hz = NoCall /\ aa = NoCall /\ hl = NoCall
    /\ rs = NoCall /\ al = NoCall /\ pr = NoCall /\ mi = NoCall /\ mr = NoCall /\ ds = NoCall /\ ad = NoCall /\ hd = NoCall /\ bs = NoCall /\ ss = NoCall

\* one call of split_dateline from the idle state
CallSplitDateline ==
    /\ Idle
    /\ \E seq \in SeqsOf(SplitPts, 0, MaxSeqLen), mj \in MaxJumps :
        sd' = [op |-> "split_dateline", seq |-> seq, max_jump |-> mj,
               out |-> split_dateline(seq, mj)]
    /\ UNCHANGED <<ps, hz, aa, hl, rs, al, pr, mi, mr, ds, ad, hd, bs, ss>>

SplineLons == {-170, 0, 170, 200}
\* the latitude array of length m: 0, 10, 20, ...
LatRamp(m) == [i \in 1..m |-> 10 * (i - 1)]
NoSolve == [ok |-> FALSE, pts |-> <<>>]

\* one call of parametric_spline from the idle state
CallParametricSpline ==
    /\ Idle
    /\ \E lons \in SeqsOf(SplineLons, 0, MaxPts), m \in 0..MaxPts,
          density \in 0..MaxDensity :
        \E solve \in IF ReachesSolve(lons, LatRamp(m))
                     THEN SolveOutcomes(density) ELSE {NoSolve} :
            ps' = [op |-> "parametric_spline", lons |-> lons,
                   lats |-> LatRamp(m), density |-> density,
                   out |-> parametric_spline(lons, LatRamp(m), density, solve)]
    /\ UNCHANGED <<sd, hz, aa, hl, rs, al, pr, mi, mr, ds, ad, hd, bs, ss>>

LatUniverse == {-60, -30, 0, 1, 30, 80}
Declinations == {0, 20, -20, 89, 95, -100}
\* (right ascension, Greenwich sidereal time) of the charts
Charts == {<<0, 0>>, <<100, 50>>}
\* the latitude grids: ascending or descending, at most MaxGrid latitudes
Grids ==
    {g \in SeqsOf(LatUniverse, 0, MaxGrid) :
        \/ \A i \in 1..(Len(g) - 1) : g[i] < g[i + 1]
        \/ \A i \in 1..(Len(g) - 1) : g[i] > g[i + 1]}

\* the outcomes of the spline solve to draw from for one horizon line: one
\* when its anchor path does not reach the solve
HorizonSolves(delta, alpha, gst, lat_steps, density) ==
    TheOne({IF ReachesSolve(Lons(a), Lats(a))
            THEN SolveOutcomes(density) ELSE {NoSolve}
            : a \in {HorizonAnchors(delta, alpha, gst, lat_steps)}})

\* one call of generate_horizon_line from the idle state
CallGenerateHorizonLine ==
    /\ Idle
    /\ \E delta \in Declinations, ch \in Charts, lat_steps \in Grids,
          density \in 0..MaxDensity :
        \E solve \in HorizonSolves(delta, ch[1], ch[2], lat_steps, density) :
            hz' = [op |-> "generate_horizon_line", dec |-> delta,
                   ra_deg |-> ch[1], gst_deg |-> ch[2],
                   lat_steps |-> lat_steps, density |-> density,
                   out |-> generate_horizon_line(delta, ch[1], ch[2],
                                                 lat_steps, density, solve)]
    /\ UNCHANGED <<sd, ps, aa, hl, rs, al, pr, mi, mr, ds, ad, hd, bs, ss>>

\* the longitudes the root search may have accepted (wrapped)
SolvedLons == {-170, 0, 170}
\* what the spline solve gives for 400 samples: it raises, or the samples are
\* a up to index k and b after it
AspectSolveOutcomes ==
    {NoSolve} \cup
    {[ok |-> TRUE, pts |-> [j \in 1..AspectDensity |-> IF j <= k THEN a ELSE b]] :
        a \in RawSamples, b \in RawSamples, k \in {200}}

\* one run of the assembly part of _generate_asc_aspect_line
CallAscAspectAssemble ==
    /\ Idle
    /\ \E lons \in SeqsOf(SolvedLons, 0, MaxSolved) :
        LET lats == Reverse(LatRamp(Len(lons)))
        IN  \E solve \in IF Len(lons) >= 3 /\ ReachesSolve(lons, lats)
                         THEN AspectSolveOutcomes ELSE {NoSolve} :
                aa' = [op |-> "_generate_asc_aspect_line", lons |-> lons,
                       lats |-> lats,
                       out |-> asc_aspect_assemble(lons, lats, solve)]
    /\ UNCHANGED <<sd, ps, hz, hl, rs, al, pr, mi, mr, ds, ad, hd, bs, ss>>

\* chart_data["planets"] entries (with precomputed ra / dec)
Planets ==
    {[name |-> "Sun", ra |-> 0, dec |-> 0, data_type |-> ""],
     [name |-> "Moon", ra |-> 100, dec |-> 89, data_type |-> "progressed"],
     [name |-> "Mars", ra |-> 100, dec |-> 95, data_type |-> ""],
     [name |-> "Eris", ra |-> 0, dec |-> 20, data_type |-> ""]}
\* lists of planets with distinct names
PlanetLists ==
    {q \in SeqsOf(Planets, 0, MaxPlanets) :
        \A i \in 1..Len(q), j \in 1..Len(q) : i # j => q[i] # q[j]}
\* settings["lat_steps"], settings["density"], swe.sidtime(jd) * 15
HLGrids == {<<-30, 30>>, <<-30, 0, 30>>, <<80>>}
HLDensities == {0, 3}
SiderealTimes == {50}

\* generate_horizon_lines up to the second loop: the early returns and the
\* first loop over chart_data["planets"]
HLCall ==
    /\ Idle
    /\ \E planets \in PlanetLists, jd_ok \in BOOLEAN, lat_steps \in HLGrids,
          density \in HLDensities, gst \in SiderealTimes :
        hl' = [op |-> "generate_horizon_lines",
               pc |-> IF jd_ok THEN "loop" ELSE "done",
               planets |-> planets, jd_ok |-> jd_ok, lat_steps |-> lat_steps,
               density |-> density, gst |-> gst,
               names |-> IF jd_ok THEN KnownPlanets(planets) ELSE <<>>,
               i |-> 1, features |-> <<>>]
    /\ UNCHANGED <<sd, ps, hz, aa, rs, al, pr, mi, mr, ds, ad, hd, bs, ss>>

\* one iteration of "for pname in ra_deg"
HLStep ==
    /\ hl # NoCall
    /\ hl.pc = "loop"
    /\ hl.i <= Len(hl.names)
    /\ \E planet \in {hl.names[hl.i]} :
        \E solve \in HorizonSolves(planet.dec, planet.ra, hl.gst,
                                   hl.lat_steps, hl.density) :
            \E feat \in {generate_horizon_line(planet.dec, planet.ra, hl.gst,
                                               hl.lat_steps, hl.density, solve)} :
                hl' = IF feat.exc # "none"
                      THEN [hl EXCEPT !.pc = "raised"]
                      ELSE IF feat.ret = "None"
                      THEN [hl EXCEPT !.i = @ + 1]
                      ELSE [hl EXCEPT !.i = @ + 1,
                                      !.features =
                                          Append(@, HorizonFeature(planet, feat))]
    /\ UNCHANGED <<sd, ps, hz, aa, rs, al, pr, mi, mr, ds, ad, hd, bs, ss>>

\* the loop is over: return features
HLReturn ==
    /\ hl # NoCall
    /\ hl.pc = "loop"
    /\ hl.i > Len(hl.names)
    /\ hl' = [hl EXCEPT !.pc = "done"]
    /\ UNCHANGED <<sd, ps, hz, aa, rs, al, pr, mi, mr, ds, ad, hd, bs, ss>>

Init ==
    /\ sd = NoCall
    /\ ps = NoCall
    /\ hz = NoCall
    /\ aa = NoCall
    /\ hl = NoCall
    /\ rs = NoCall
    /\ al = NoCall
    /\ pr = NoCall
    /\ mi = NoCall
    /\ mr = NoCall
    /\ ds = NoCall
    /\ ad = NoCall
    /\ hd = NoCall
    /\ bs = NoCall
    /\ ss = NoCall

NextSplit == CallSplitDateline

SpecSplit == Init /\ [][NextSplit]_vars

NextSpline == CallParametricSpline

SpecSpline == Init /\ [][NextSpline]_vars

NextLines ==
    \/ CallGenerateHorizonLine
    \/ CallAscAspectAssemble
    \/ HLCall
    \/ HLStep
    \/ HLReturn

SpecLines == Init /\ [][NextLines]_vars

\* ---------------------------------------------------------------- claims
\* every two consecutive points of path differ in longitude by at most bound
JumpsWithin(path, bound) ==
    \A i \in 1..(Len(path) - 1) :
        /\ path[i + 1][1] - path[i][1] <= bound
        /\ path[i][1] - path[i + 1][1] <= bound

sdCalled == sd.op = "split_dateline"

\* C1: every segment split_dateline returns for a non-empty input has all
\* consecutive longitude differences at most max_jump and at most 180, so
\* the "Dateline split failed" assertion holds of its result.
C1_SegmentsDatelineSafe ==
    (sdCalled /\ Len(sd.seq) > 0) =>
        /\ sd.out.exc = "none"
        /\ \A s \in 1..Len(sd.out.segments) :
              /\ JumpsWithin(sd.out.segments[s], sd.max_jump)
              /\ JumpsWithin(sd.out.segments[s], 180)
        /\ DatelineAssert(sd.out.segments)

\* a call with max_jump above 180 whose input was split at a jump over 180
C1_Witness ==
    /\ sdCalled
    /\ sd.max_jump > 180
    /\ Len(sd.out.segments) >= 2
    /\ \E i \in 1..(Len(sd.seq) - 1) : Abs(sd.seq[i][1] - sd.seq[i + 1][1]) > 180

psCalled == ps.op = "parametric_spline"

\* C2: every longitude parametric_spline returns lies in [-180, 180].
C2_OutputLonsWrapped ==
    (psCalled /\ ps.out.exc = "none") =>
        \A j \in 1..Len(ps.out.lons) :
            ps.out.lons[j] >= -180 /\ ps.out.lons[j] <= 180

\* C9: with n >= 2 points (arrays of equal length) parametric_spline returns
\* exactly density points on every path; with fewer than 2 it returns the
\* input unchanged.
C9_DensityPoints ==
    (psCalled /\ Len(ps.lons) = Len(ps.lats)) =>
        /\ ps.out.exc = "none"
        /\ Len(ps.lons) >= 2 =>
              Len(ps.out.lons) = ps.density /\ Len(ps.out.lats) = ps.density
        /\ Len(ps.lons) < 2 =>
              ps.out.lons = ps.lons /\ ps.out.lats = ps.lats

\* the exception fallback of a periodic path returned density points
C9_Witness ==
    /\ psCalled
    /\ ps.out.path = "fallback"
    /\ Len(ps.lons) = 3
    /\ ps.density = 2
    /\ Len(ps.out.lons) = 2

\* C10: parametric_spline never raises, and empty or mismatched-length
\* arrays give the empty result.
C10_NeverRaises ==
    psCalled =>
        /\ ps.out.exc = "none"
        /\ (Len(ps.lons) = 0 \/ Len(ps.lats) = 0 \/ Len(ps.lons) # Len(ps.lats)) =>
              ps.out.lons = <<>> /\ ps.out.lats = <<>>

hzCalled == hz.op = "generate_horizon_line"
hzFeature == hzCalled /\ hz.out.exc = "none" /\ hz.out.ret = "Feature"
\* V, the number of grid latitudes with |tan(lat) * tan(dec)| <= 1
NumVisible == Cardinality({i \in 1..Len(hz.lat_steps) :
                              Abs(CosHMilli(hz.lat_steps[i], hz.dec)) <= 1000})
\* the number of indices start..end
RangeCount(start, end) == IF end < start THEN 0 ELSE end - start + 1
\* the number of points of a feature's geometry
RECURSIVE TotalPoints(_)
TotalPoints(paths) ==
    IF Len(paths) = 0 THEN 0 ELSE Len(Head(paths)) + TotalPoints(Tail(paths))

aaCalled == aa.op = "_generate_asc_aspect_line"

\* C3: a feature returned by generate_horizon_line or by
\* _generate_asc_aspect_line has at least one path in its geometry and every
\* path has at least two points (no empty coordinate list, no one-point
\* path).
C3_FeatureHasPaths ==
    /\ hzFeature =>
          /\ Len(hz.out.paths) >= 1
          /\ \A s \in 1..Len(hz.out.paths) : Len(hz.out.paths[s]) >= 2
    /\ (aaCalled /\ aa.out.ret = "Feature") =>
          /\ Len(aa.out.paths) >= 1
          /\ \A s \in 1..Len(aa.out.paths) : Len(aa.out.paths[s]) >= 2

\* C4: the segments property has dc_start = ac_end + 1, 0 < ac_end < number
\* of points of the geometry, the DC range ends at the last index of the
\* fitted curve, and both ranges are non-empty and within the fitted curve.
C4_SegmentLabelsInBounds ==
    hzFeature =>
        /\ hz.out.segs.dc_start = hz.out.segs.ac_end + 1
        /\ 0 < hz.out.segs.ac_end
        /\ hz.out.segs.ac_end < TotalPoints(hz.out.paths)
        /\ hz.out.segs.dc_end = hz.out.n_coords - 1
        /\ hz.out.segs.dc_start <= hz.out.segs.dc_end

\* C5 as stated: the AC and DC ranges together hold exactly 2V - 1 points,
\* whatever the density.
C5_CombinedIsTwoVMinusOne ==
    hzFeature =>
        RangeCount(0, hz.out.segs.ac_end)
            + RangeCount(hz.out.segs.dc_start, hz.out.segs.dc_end)
          = 2 * NumVisible - 1

\* C5 as amended: the anchor path has exactly 2V - 1 points; the AC range
\* holds V indices and the DC range the indices V..n-1 of the n fitted
\* points (n = density when V >= 2, n = 1 when V = 1), max(V, n) together.
C5_AnchorsTwoVMinusOne ==
    hzFeature =>
        /\ Len(hz.out.pts) = 2 * NumVisible - 1
        /\ hz.out.n_coords = (IF NumVisible >= 2 THEN hz.density ELSE 1)
        /\ RangeCount(0, hz.out.segs.ac_end) = NumVisible
        /\ RangeCount(0, hz.out.segs.ac_end)
              + RangeCount(hz.out.segs.dc_start, hz.out.segs.dc_end)
            = Max2(NumVisible, hz.out.n_coords)

\* a feature of the chart RA 100, dec 20, sidereal time 50 with three visible
\* latitudes whose labelled ranges do not hold 2V - 1 points
C5_Witness ==
    /\ hzFeature
    /\ hz.ra_deg = 100 /\ hz.dec = 20 /\ hz.gst_deg = 50
    /\ NumVisible = 3
    /\ Len(hz.out.pts) = 5
    /\ RangeCount(0, hz.out.segs.ac_end)
          + RangeCount(hz.out.segs.dc_start, hz.out.segs.dc_end) = 3

\* C6: a declination beyond 90 degrees is reported as an error, an outcome
\* different from the None of a body that is visible at no latitude.
C6_InvalidDeclinationIsError ==
    (hzCalled /\ Abs(hz.dec) > 90) =>
        ~(hz.out.exc = "none" /\ hz.out.ret = "None")

hlCalled == hl.op = "generate_horizon_lines"
\* |dec| <= 90 and some latitude of the grid has |tan(lat) * tan(dec)| <= 1
SomewhereVisible(planet, lat_steps) ==
    /\ Abs(planet.dec) <= 90
    /\ \E i \in 1..Len(lat_steps) :
          Abs(CosHMilli(lat_steps[i], planet.dec)) <= 1000
\* the bodies among the first n of names that are visible somewhere
VisibleBodies(names, n, lat_steps) ==
    LET vis(planet) == SomewhereVisible(planet, lat_steps)
    IN  SelectSeq(SubSeq(names, 1, n), vis)

\* C7: for |dec| <= 90 generate_horizon_line returns None, without raising,
\* exactly when no grid latitude has |tan(lat) * tan(dec)| <= 1; otherwise
\* the anchor path is built from exactly the grid latitudes that have.
\* generate_horizon_lines holds one feature for each body processed so far
\* that is visible somewhere and none for the others, a body that is visible
\* nowhere never ends the loop, and the loop returns only after every body.
C7_NoneIffNeverVisible ==
    /\ (hzCalled /\ Abs(hz.dec) <= 90) =>
          /\ (hz.out.exc = "none" /\ hz.out.ret = "None") <=> (NumVisible = 0)
          /\ ~hz.out.warned
          /\ NumVisible > 0 =>
                /\ {hz.out.pts[i][2] : i \in 1..Len(hz.out.pts)}
                      = {hz.lat_steps[i] : i \in
                           {j \in 1..Len(hz.lat_steps) :
                               Abs(CosHMilli(hz.lat_steps[j], hz.dec)) <= 1000}}
                /\ Len(hz.out.lat_vis) = NumVisible
    /\ (hlCalled /\ hl.jd_ok) =>
          /\ hl.pc \in {"loop", "done"} =>
                [k \in 1..Len(hl.features) |-> hl.features[k].planet]
                   = [k \in 1..Len(VisibleBodies(hl.names, hl.i - 1, hl.lat_steps)) |->
                        LET planet == VisibleBodies(hl.names, hl.i - 1,
                                                    hl.lat_steps)[k]
                        IN  IF planet.data_type = "progressed"
                            THEN planet.name \o " CCG" ELSE planet.name]
          /\ hl.pc = "raised" =>
                SomewhereVisible(hl.names[hl.i], hl.lat_steps)
          /\ hl.pc = "done" => hl.i = Len(hl.names) + 1

\* generate_horizon_lines returned the feature of the second body after a
\* first body (|dec| <= 90) that is visible at no latitude of the grid
C7_Witness ==
    /\ hlCalled
    /\ hl.pc = "done"
    /\ Len(hl.names) = 2
    /\ Abs(hl.names[1].dec) <= 90
    /\ ~SomewhereVisible(hl.names[1], hl.lat_steps)
    /\ Len(hl.features) = 1
    /\ hl.features[1].planet = hl.names[2].name

\* C8 as stated: declination 0 is visible at every grid latitude, and
\* declination 89 with a grid within -60..60 gives None.
C8_Dec89NeverVisible ==
    hzCalled =>
        /\ hz.dec = 0 => Len(hz.out.lat_vis) = Len(hz.lat_steps)
        /\ (hz.dec = 89 /\ \A i \in 1..Len(hz.lat_steps) :
                                 Abs(hz.lat_steps[i]) <= 60) =>
              (hz.out.exc = "none" /\ hz.out.ret = "None")

\* C8 as amended: declination 0 is visible at every grid latitude; with
\* declination 89 and a grid within -60..60 the result is None exactly when
\* the grid holds no latitude within one degree of the equator, and
\* otherwise the visible latitudes are exactly the grid's latitudes within
\* one degree of the equator.
C8_Dec89VisibleAtEquator ==
    hzCalled =>
        /\ hz.dec = 0 => Len(hz.out.lat_vis) = Len(hz.lat_steps)
        /\ (hz.dec = 89 /\ \A i \in 1..Len(hz.lat_steps) :
                                 Abs(hz.lat_steps[i]) <= 60) =>
              /\ (hz.out.exc = "none" /\ hz.out.ret = "None") <=>
                    (\A i \in 1..Len(hz.lat_steps) : Abs(hz.lat_steps[i]) > 1)
              /\ {hz.out.lat_vis[i] : i \in 1..Len(hz.out.lat_vis)}
                    = {hz.lat_steps[i] : i \in
                         {j \in 1..Len(hz.lat_steps) : Abs(hz.lat_steps[j]) <= 1}}

\* declination 89, a grid within -60..60 that holds the equator: a feature
C8_Witness ==
    /\ hzCalled
    /\ hz.dec = 89
    /\ Len(hz.lat_steps) >= 2
    /\ \A i \in 1..Len(hz.lat_steps) : Abs(hz.lat_steps[i]) <= 60
    /\ \E i \in 1..Len(hz.lat_steps) : hz.lat_steps[i] = 0
    /\ hz.out.ret = "Feature"

\* ==================================== _generate_asc_aspect_line, root search
\* Longitudes and residuals of the root search are integers in units of
\* 1 / Unit degree (2^21 to the degree), fine enough for 20 halvings of a
\* bracket; 0.5 * (a + b) rounds down to a unit.
Unit == 2097152
Deg(d) == d * Unit
\* np.inf, what asc_residual returns when swe.houses_ex raises
Inf == 2147483647
\* nearest whole degree, the resolution of the curve fitting above
ToDeg(x) == (x + Unit \div 2) \div Unit

\* _wrap_longitude
wrap_longitude(lon) == ((lon + Deg(180)) % Deg(360)) - Deg(180)

\* the sign of a product of two floats, for "f_start * f_end <= 0" and
\* "f_start * f_mid < 0"; inf * 0 is nan and compares False
ProductNonPositive(a, b) ==
    /\ ~(a = Inf /\ b = 0) /\ ~(a = 0 /\ b = Inf)
    /\ (a <= 0 /\ b >= 0) \/ (a >= 0 /\ b <= 0)
ProductNegative(a, b) == (a < 0 /\ b > 0) \/ (a > 0 /\ b < 0)

\* swe.houses_ex(jd_tt, lat, lon, b'P') at one latitude: the sky there is
\* [offset, throws]; the call raises at the longitudes throws names, and
\* otherwise ascmc[0] is lon + offset in [0, 360)
HousesThrows(sky, lon) ==
    \/ sky.throws = "all"
    \/ sky.throws = "west" /\ lon < 0
Ascendant(sky, lon) == (lon + sky.offset + Deg(360)) % Deg(360)

\* asc_residual(lon) of the latitude with this sky
asc_residual(sky, target, lon) ==
    IF HousesThrows(sky, lon) THEN Inf
    ELSE wrap_longitude(wrap_longitude(Ascendant(sky, lon))
                            - wrap_longitude(target))

BracketWidth == 10
\* a plausible slip: the loop runs one iteration more
MaxIterationsPlusOne == 20 + 1
MaxIterations == 20
\* tolerance = 0.01 degree: |f| < 0.01 * Unit = 20971.52 for an integer f
Tolerance == 20972
GridPoints == 73
\* "Accept if within 1 degree"
GridAccept == 1
\* the cap on the residuals of the grid search and on a bracket's ends
ResidualCap == 1000

\* the bisection loop "for _ in range(20)" from iteration n on, and the
\* midpoint taken as the solution when the loop ends without break
RECURSIVE Bisect(_, _, _, _, _, _)
Bisect(sky, target, lon_start, lon_end, f_start, n) ==
    IF n >= MaxIterations
    THEN [lon |-> (lon_start + lon_end) \div 2, iters |-> n, converged |-> FALSE]
    ELSE TheOne({TheOne({
            IF Abs(f_mid) < Tolerance
            THEN [lon |-> lon_mid, iters |-> n + 1, converged |-> TRUE]
            ELSE IF ProductNegative(f_start, f_mid)
            THEN Bisect(sky, target, lon_start, lon_mid, f_start, n + 1)
            ELSE Bisect(sky, target, lon_mid, lon_end, f_mid, n + 1)
            : f_mid \in {asc_residual(sky, target, lon_mid)}})
            : lon_mid \in {(lon_start + lon_end) \div 2}})

\* grid_lons = np.linspace(-180, 180, 73)
GridLon(k) == Deg(-180) + k * Deg(5)

\* the grid search: residuals, np.argmin (the first minimum), acceptance
GridSearch(sky, target) ==
    TheOne({
        LET m == CHOOSE v \in {residuals[k] : k \in 1..GridPoints} :
                     \A k \in 1..GridPoints : v <= residuals[k]
            min_idx == CHOOSE k \in 1..GridPoints :
                           /\ residuals[k] = m
                           /\ \A j \in 1..(k - 1) : residuals[j] # m
        IN  [found |-> residuals[min_idx] < Deg(GridAccept),
             lon |-> GridLon(min_idx - 1), evals |-> GridPoints]
        : residuals \in {[k \in 1..GridPoints |->
              TheOne({IF Abs(res) < Deg(ResidualCap) THEN Abs(res)
                      ELSE Deg(ResidualCap)
                      : res \in {asc_residual(sky, target, GridLon(k - 1))}})]}})

NoPrev == [has |-> FALSE, lon |-> 0]

\* a plausible slip: the grid search is skipped
SearchResultNoGrid(prev, bracket, sign_change, bis, grid) ==
    [found |-> sign_change,
     lon |-> wrap_longitude(bis.lon),
     raw_lon |-> bis.lon,
     via |-> IF sign_change
             THEN (IF bis.converged THEN "converged" ELSE "exhausted")
             ELSE "none",
     strategies |-> <<bracket>>,
     sign_change |-> sign_change,
     iters |-> IF sign_change THEN bis.iters ELSE 0,
     grid_evals |-> 0,
     calls |-> 2 + (IF sign_change THEN bis.iters ELSE 0)]

\* the outcome of the body of "for lat in lat_steps" (lines 241-310), given
\* the bracket tried, whether it held a sign change, and the outcomes of the
\* bisection and of the grid search, each read only where the code runs it
SearchResult(prev, bracket, sign_change, bis, grid) ==
    IF sign_change
    THEN [found |-> TRUE,
          lon |-> wrap_longitude(bis.lon),
          raw_lon |-> bis.lon,
          via |-> IF bis.converged THEN "converged" ELSE "exhausted",
          strategies |-> <<bracket>>,
          sign_change |-> TRUE,
          iters |-> bis.iters,
          grid_evals |-> 0,
          calls |-> 2 + bis.iters]
    ELSE [found |-> grid.found,
          lon |-> wrap_longitude(grid.lon),
          raw_lon |-> grid.lon,
          via |-> IF grid.found THEN "grid" ELSE "none",
          strategies |-> <<bracket, "grid">>,
          sign_change |-> FALSE,
          iters |-> 0,
          grid_evals |-> grid.evals,
          calls |-> 2 + grid.evals]

\* one iteration of "for lat in lat_steps": the bracket (narrow around the
\* previous solution, else the full range), bisection on a sign change,
\* otherwise the grid search
SearchLat(prev, sky, target) ==
    TheOne({TheOne({TheOne({
        LET sign_change == /\ ProductNonPositive(f[1], f[2])
                           /\ Abs(f[1]) < Deg(ResidualCap)
                           /\ Abs(f[2]) < Deg(ResidualCap)
        IN  SearchResult(prev, IF prev.has THEN "narrow" ELSE "full",
                         sign_change,
                         IF sign_change
                         THEN Bisect(sky, target, br[1], br[2], f[1], 0)
                         ELSE [lon |-> 0, iters |-> 0, converged |-> FALSE],
                         IF sign_change
                         THEN [found |-> FALSE, lon |-> 0, evals |-> 0]
                         ELSE GridSearch(sky, target))
        : f \in {<<asc_residual(sky, target, br[1]),
                   asc_residual(sky, target, br[2])>>}})
        : br \in {<<Max2(Deg(-180), b[1]),
                    IF b[2] < Deg(180) THEN b[2] ELSE Deg(180)>>}})
        : b \in {IF prev.has
                 THEN <<prev.lon - Deg(BracketWidth), prev.lon + Deg(BracketWidth)>>
                 ELSE <<Deg(-180), Deg(180)>>}})

\* the skies a latitude may have, for the target ascendant 30: the root of
\* the residual lies at longitude 0, 3, 20.5, 2.5, -177 or 180, or the
\* house function raises everywhere, or west of Greenwich
TargetAsc == Deg(30)
Skies ==
    {[offset |-> Deg(30), throws |-> "none"],
     [offset |-> Deg(27), throws |-> "none"],
     [offset |-> Deg(19) \div 2, throws |-> "none"],
     [offset |-> Deg(55) \div 2, throws |-> "none"],
     [offset |-> Deg(207), throws |-> "none"],
     [offset |-> Deg(-150), throws |-> "none"],
     [offset |-> Deg(30), throws |-> "all"],
     [offset |-> Deg(27), throws |-> "west"]}
\* what the spline solve gives the 400 samples of a searched line
SearchSolveOutcomes ==
    {NoSolve,
     [ok |-> TRUE, pts |-> [j \in 1..AspectDensity |-> <<170, 0>>]]}

\* a plausible slip: a latitude without a solution empties the list
NextSamplesReset(samples, found, x) ==
    IF found THEN Append(samples, x) ELSE <<>>

\* lons.append(solution_lon) / lats.append(lat) under "if found_solution"
NextSamples(samples, found, x) ==
    IF found THEN Append(samples, x) ELSE samples

\* _generate_asc_aspect_line is called: lons = [], lats = [], prev_lon = None
AscLineCall ==
    /\ Idle
    /\ \E n \in 0..MaxLats :
        rs' = [op |-> "_generate_asc_aspect_line", pc |-> "loop",
               target |-> TargetAsc, lat_steps |-> LatRamp(n), i |-> 1,
               prev |-> NoPrev, lons |-> <<>>, lats |-> <<>>, log |-> <<>>,
               out |-> AspectResult("None", "none", <<>>, TRUE)]
    /\ UNCHANGED <<sd, ps, hz, aa, hl, al, pr, mi, mr, ds, ad, hd, bs, ss>>

\* one iteration of "for lat in lat_steps"
AscLineLat ==
    /\ rs # NoCall
    /\ rs.pc = "loop"
    /\ rs.i <= Len(rs.lat_steps)
    /\ \E sky \in Skies :
        \E r \in {SearchLat(rs.prev, sky, rs.target)} :
            rs' = [rs EXCEPT
                     !.i = @ + 1,
                     !.prev = IF r.found THEN [has |-> TRUE, lon |-> r.lon]
                              ELSE NoPrev,
                     !.lons = NextSamples(@, r.found, r.lon),
                     !.lats = NextSamples(@, r.found, rs.lat_steps[rs.i]),
                     !.log = Append(@, [sky |-> sky, prev |-> rs.prev,
                                        res |-> r])]
    /\ UNCHANGED <<sd, ps, hz, aa, hl, al, pr, mi, mr, ds, ad, hd, bs, ss>>

\* the loop is over: the accepted samples are assembled into the feature
AscLineAssemble ==
    /\ rs # NoCall
    /\ rs.pc = "loop"
    /\ rs.i > Len(rs.lat_steps)
    /\ \E lons \in {[k \in 1..Len(rs.lons) |-> ToDeg(rs.lons[k])]} :
        \E solve \in IF Len(lons) >= 3 /\ ReachesSolve(lons, rs.lats)
                     THEN SearchSolveOutcomes ELSE {NoSolve} :
            rs' = [rs EXCEPT !.pc = "done",
                             !.out = asc_aspect_assemble(lons, rs.lats, solve)]
    /\ UNCHANGED <<sd, ps, hz, aa, hl, al, pr, mi, mr, ds, ad, hd, bs, ss>>

NextSearch ==
    \/ AscLineCall
    \/ AscLineLat
    \/ AscLineAssemble

SpecSearch == Init /\ [][NextSearch]_vars

\* the loop is sequential code: it goes on while a step is left
SpecSearchFair == SpecSearch /\ WF_vars(NextSearch)

\* ------------------------------------------------- claims, root search
rsCalled == rs.op = "_generate_asc_aspect_line"
\* the latitudes searched so far
Searched == IF rsCalled THEN 1..Len(rs.log) ELSE {}
\* |residual| at the longitude the search of latitude k settled on
ResidualAt(k) ==
    Abs(asc_residual(rs.log[k].sky, rs.target, rs.log[k].res.raw_lon))
\* the entries of the log with a solution, in order
FoundEntries ==
    LET found(e) == e.res.found
    IN  SelectSeq(rs.log, found)

\* C11 as stated: the strategies of a latitude are tried in the order narrow
\* bracket, full bracket, grid search; the full bracket is tried whenever the
\* narrow bracket shows no sign change, and the grid search only after the
\* full bracket.
C11_NarrowFullGrid ==
    \A k \in Searched :
        LET e == rs.log[k]
            tried == {e.res.strategies[j] : j \in 1..Len(e.res.strategies)}
        IN  /\ ("narrow" \in tried /\ ~e.res.sign_change) => "full" \in tried
            /\ "grid" \in tried => "full" \in tried

\* C11 as amended: each latitude tries exactly one bracket, the narrow one
\* when the previous latitude gave a solution and the full one otherwise
\* (never the full bracket after the narrow one); a sign change in it gives
\* the sample by bisection, and without a sign change the grid search
\* follows directly.
C11_OneBracketThenGrid ==
    \A k \in Searched :
        LET e == rs.log[k]
        IN  /\ e.prev.has <=> (k > 1 /\ rs.log[k - 1].res.found)
            /\ e.res.strategies[1] = (IF e.prev.has THEN "narrow" ELSE "full")
            /\ e.res.sign_change =>
                  /\ e.res.strategies = <<e.res.strategies[1]>>
                  /\ e.res.found
                  /\ e.res.via \in {"converged", "exhausted"}
            /\ ~e.res.sign_change =>
                  /\ e.res.strategies = <<e.res.strategies[1], "grid">>
                  /\ e.res.via \in {"grid", "none"}

\* a latitude whose narrow bracket showed no sign change took its sample
\* from the grid search, the full bracket untried
C11_Witness ==
    \E k \in Searched :
        /\ rs.log[k].prev.has
        /\ rs.log[k].res.strategies = <<"narrow", "grid">>
        /\ rs.log[k].res.via = "grid"

\* C12: every sample added to the line has |residual| below 0.01 degree,
\* and a latitude where no strategy reaches that tolerance adds no sample.
C12_SamplesWithinTolerance ==
    \A k \in Searched :
        rs.log[k].res.found <=> (ResidualAt(k) <= Unit \div 100)

C15_BoundedSearch ==
    /\ [](\A k \in Searched :
             /\ rs.log[k].res.iters <= 20
             /\ rs.log[k].res.grid_evals <= 73
             /\ rs.log[k].res.calls
                   = 2 + rs.log[k].res.iters + rs.log[k].res.grid_evals
             /\ rs.log[k].res.calls <= 2 + 20 + 73)
    /\ (rsCalled ~> (/\ rsCalled
                     /\ rs.pc = "done"
                     /\ rs.out.ret \in {"Feature", "None"}))

\* a finished call in which one latitude used all 20 iterations and
\* another all 73 grid evaluations
C15_Witness ==
    /\ rsCalled
    /\ rs.pc = "done"
    /\ \E k \in Searched : rs.log[k].res.iters = 20
    /\ \E k \in Searched : rs.log[k].res.grid_evals = 73

\* ================================================ calculate_aspect_lines
\* ASPECT_ANGLES, ASPECT_LABELS
AspectAngles == <<60, 90, 120>>
AspectLabels(angle) ==
    CASE angle = 60 -> "sextile" [] angle = 90 -> "square" [] angle = 120 -> "trine"
\* a plausible slip: the negative offsets are left out
PositiveDeltas == AspectAngles
\* ASPECT_ANGLES + [-a for a in ASPECT_ANGLES]
Deltas == AspectAngles \o [k \in 1..Len(AspectAngles) |-> -AspectAngles[k]]
\* _aspect_label
aspect_label(planet, angle, to) ==
    planet \o " " \o AspectLabels(Abs(angle)) \o " " \o to

\* the names of swe_id_map in _get_planet_positions the charts below use
AspectSweIdMap == {"Sun"}
\* chart_data["planets"]: names with the ecliptic longitude the ephemeris
\* gives them
AspectPlanets == {[name |-> "Sun", ecl_lon |-> 30],
                  [name |-> "Eris", ecl_lon |-> 100]}
AspectPlanetLists ==
    {<<>>} \cup {<<a>> : a \in AspectPlanets}
           \cup {pq \in {<<a, b>> : a \in AspectPlanets, b \in AspectPlanets} :
                      pq[1] # pq[2]}
\* _get_planet_positions: the recognised planets, in order
planet_positions(planets) ==
    LET known(planet) == planet.name \in AspectSweIdMap
    IN  SelectSeq(planets, known)

\* the properties of an aspect feature (delta is kept beside angle, which is
\* abs(delta)); the geometry is not part of this record
AspectFeature(name, delta, to) ==
    [planet |-> name, line_type |-> "ASPECT", angle |-> Abs(delta),
     delta |-> delta, to |-> to, label |-> aspect_label(name, delta, to)]

\* the MC loop (lines 144-164): one feature for each planet and delta
RECURSIVE McFeatures(_, _)
McFeatures(names, b) ==
    IF b > Len(names) THEN <<>>
    ELSE [d \in 1..Len(Deltas) |-> AspectFeature(names[b].name, Deltas[d], "MC")]
            \o McFeatures(names, b + 1)

\* the loop "for lat in lat_steps" of _generate_asc_aspect_line from
\* latitude i on, with the sky of each latitude
RECURSIVE AscSearchFrom(_, _, _, _, _, _, _)
AscSearchFrom(skies, lat_steps, i, prev, lons, lats, target) ==
    IF i > Len(lat_steps)
    THEN [lons |-> lons, lats |-> lats]
    ELSE TheOne({
            AscSearchFrom(skies, lat_steps, i + 1,
                          IF r.found THEN [has |-> TRUE, lon |-> r.lon]
                          ELSE NoPrev,
                          NextSamples(lons, r.found, r.lon),
                          NextSamples(lats, r.found, lat_steps[i]), target)
            : r \in {SearchLat(prev, skies[i], target)}})

\* _generate_asc_aspect_line as one call: [solved, ret]
generate_asc_aspect_line(target, lat_steps, skies, solve) ==
    TheOne({
        [solved |-> Len(s.lons),
         ret |-> asc_aspect_assemble([k \in 1..Len(s.lons) |-> ToDeg(s.lons[k])],
                                     s.lats, solve).ret]
        : s \in {AscSearchFrom(skies, lat_steps, 1, NoPrev, <<>>, <<>>, target)}})

\* lat_steps of the ASC loop, and the skies of one line: the root of the
\* residual lies on the 5 degree grid at every latitude, and the house
\* function may raise at the second latitude
AspectLatSteps == LatRamp(3)
AspectSkySeqs ==
    {[k \in 1..Len(AspectLatSteps) |-> [offset |-> Deg(30), throws |-> "none"]],
     [k \in 1..Len(AspectLatSteps) |->
         [offset |-> Deg(30), throws |-> IF k = 2 THEN "all" ELSE "none"]]}

\* calculate_aspect_lines up to the ASC loop: the early returns, the planet
\* positions (an ephemeris call that raises ends in the except clause with
\* the features so far, none), and the MC loop
AspectsCall ==
    /\ Idle
    /\ \E planets \in AspectPlanetLists, jd_ok \in BOOLEAN, eph_ok \in BOOLEAN :
        al' = [op |-> "calculate_aspect_lines",
               pc |-> IF jd_ok /\ eph_ok THEN "asc" ELSE "done",
               jd_ok |-> jd_ok, eph_ok |-> eph_ok, planets |-> planets,
               names |-> IF jd_ok /\ eph_ok THEN planet_positions(planets)
                         ELSE <<>>,
               features |-> IF jd_ok /\ eph_ok
                            THEN McFeatures(planet_positions(planets), 1)
                            ELSE <<>>,
               b |-> 1, d |-> 1, asc_log |-> <<>>]
    /\ UNCHANGED <<sd, ps, hz, aa, hl, rs, pr, mi, mr, ds, ad, hd, bs, ss>>

\* one iteration of the ASC loop: one planet and one delta
AspectsAscStep ==
    /\ al # NoCall
    /\ al.pc = "asc"
    /\ al.b <= Len(al.names)
    /\ \E skies \in AspectSkySeqs :
        \E feat \in {generate_asc_aspect_line(
                        Deg((al.names[al.b].ecl_lon - Deltas[al.d]) % 360),
                        AspectLatSteps, skies, NoSolve)} :
            al' = [al EXCEPT
                     !.features =
                         IF feat.ret = "Feature"
                         THEN Append(@, AspectFeature(al.names[al.b].name,
                                                      Deltas[al.d], "ASC"))
                         ELSE @,
                     !.asc_log = Append(@, [name |-> al.names[al.b].name,
                                            delta |-> Deltas[al.d],
                                            solved |-> feat.solved,
                                            ret |-> feat.ret]),
                     !.d = IF @ = Len(Deltas) THEN 1 ELSE @ + 1,
                     !.b = IF al.d = Len(Deltas) THEN @ + 1 ELSE @]
    /\ UNCHANGED <<sd, ps, hz, aa, hl, rs, pr, mi, mr, ds, ad, hd, bs, ss>>

\* the ASC loop is over: return features
AspectsReturn ==
    /\ al # NoCall
    /\ al.pc = "asc"
    /\ al.b > Len(al.names)
    /\ al' = [al EXCEPT !.pc = "done"]
    /\ UNCHANGED <<sd, ps, hz, aa, hl, rs, pr, mi, mr, ds, ad, hd, bs, ss>>

NextAspects ==
    \/ AspectsCall
    \/ AspectsAscStep
    \/ AspectsReturn

SpecAspects == Init /\ [][NextAspects]_vars

\* -------------------------------------- claims, calculate_aspect_lines
alReturned == al.op = "calculate_aspect_lines" /\ al.pc = "done"
\* the deltas of the features of a body relative to MC or ASC, in order
FeatureDeltas(name, to) ==
    LET mine(f) == f.planet = name /\ f.to = to
        fs == SelectSeq(al.features, mine)
    IN  [k \in 1..Len(fs) |-> fs[k].delta]
\* the deltas for which the ASC line of a body was generated, in order
GeneratedDeltas(name) ==
    LET mine(e) == e.name = name /\ e.ret = "Feature"
        es == SelectSeq(al.asc_log, mine)
    IN  [k \in 1..Len(es) |-> es[k].delta]

RECURSIVE GCD(_, _)
GCD(a, b) == IF b = 0 THEN a ELSE GCD(b, a % b)
Rat(n, d) ==
    TheOne({ [n |-> (IF d < 0 THEN -n ELSE n) \div g, d |-> Abs(d) \div g]
             : g \in {GCD(Abs(n), Abs(d))} })
RatOfInt(i) == [n |-> i, d |-> 1]
Cross(ax, ay, bx, by) == (ax * by) - (ay * bx)
Dot(ax, ay, bx, by) == (ax * bx) + (ay * by)
Min2(a, b) == IF a <= b THEN a ELSE b

NoPoint == [kind |-> "Empty"]
PointAt(p1, rx, ry, tn, td) ==
    [kind |-> "Point", lon |-> Rat((p1[1] * td) + (tn * rx), td),
                       lat |-> Rat((p1[2] * td) + (tn * ry), td)]
\* the two segments are parallel (d = 0)
ParallelIntersection(p1, rx, ry, qpx, qpy, sx, sy) ==
    IF Cross(qpx, qpy, rx, ry) # 0 THEN NoPoint
    ELSE LET rr == Dot(rx, ry, rx, ry)
             t0 == Dot(qpx, qpy, rx, ry)
             t1 == t0 + Dot(sx, sy, rx, ry)
             lo == Max2(0, Min2(t0, t1))
             hi == Min2(rr, Max2(t0, t1))
         IN  IF lo > hi THEN NoPoint
             ELSE IF lo = hi THEN PointAt(p1, rx, ry, lo, rr)
             ELSE [kind |-> "LineString"]
\* LineString([p1, p2]).intersection(LineString([q1, q2])) for segments of
\* positive length: a Point, a LineString (collinear overlap) or empty
SegIntersection(p1, p2, q1, q2) ==
    LET rx == p2[1] - p1[1]
        ry == p2[2] - p1[2]
        sx == q2[1] - q1[1]
        sy == q2[2] - q1[2]
        qpx == q1[1] - p1[1]
        qpy == q1[2] - p1[2]
        d == Cross(rx, ry, sx, sy)
        tn == Cross(qpx, qpy, sx, sy)
        un == Cross(qpx, qpy, rx, ry)
        within(x) == IF d > 0 THEN 0 <= x /\ x <= d ELSE d <= x /\ x <= 0
    IN  IF d = 0 THEN ParallelIntersection(p1, rx, ry, qpx, qpy, sx, sy)
        ELSE IF within(tn) /\ within(un) THEN PointAt(p1, rx, ry, tn, d)
        ELSE NoPoint

\* draw_lat_line(lat), spacing 1.0
draw_lat_line(lat) == [k \in 1..361 |-> <<RatOfInt(k - 181), lat>>]

\* name.split('_', 1): a name is the sequence of its parts between
\* underscores, <<"Sun", "AC">> for "Sun_AC"
PrimaryTypes == {"AC", "DC", "MC", "IC"}
HasUnderscore(name) == Len(name) >= 2
PlanetOf(name) == name[1]
LtypeOf(name) == Tail(name)
IsPrimary(name) ==
    HasUnderscore(name) /\ Len(LtypeOf(name)) = 1
                        /\ LtypeOf(name)[1] \in PrimaryTypes

\* a plausible slip: every other point is dropped whatever the length
DownsampleEveryOther(coords) ==
    [k \in 1..((Len(coords) + 1) \div 2) |-> coords[(2 * k) - 1]]
\* a plausible slip: the step is rounded up instead of down
DownsampleStepUp(coords) ==
    LET step == Max2(1, (Len(coords) + 179) \div 180)
    IN  [k \in 1..((Len(coords) + step - 1) \div step) |->
            coords[((k - 1) * step) + 1]]
\* coords[::max(1, len(coords)//180)]
Downsample(coords) ==
    LET step == Max2(1, Len(coords) \div 180)
    IN  [k \in 1..((Len(coords) + step - 1) \div step) |->
            coords[((k - 1) * step) + 1]]

\* line_map: the planets in order of first appearance, and the downsampled
\* coordinates of a planet's line (<<>> where .get gives None)
RECURSIVE LineMapPlanets(_, _, _)
LineMapPlanets(aspect_lines, e, planets) ==
    IF e > Len(aspect_lines) THEN planets
    ELSE LineMapPlanets(aspect_lines, e + 1,
            IF /\ IsPrimary(aspect_lines[e].name)
               /\ \A k \in 1..Len(planets) :
                      planets[k] # PlanetOf(aspect_lines[e].name)
            THEN Append(planets, PlanetOf(aspect_lines[e].name))
            ELSE planets)
LineMapGet(aspect_lines, planet, ltype) ==
    LET mine(entry) == IsPrimary(entry.name) /\ entry.name = <<planet, ltype>>
        found == SelectSeq(aspect_lines, mine)
    IN  IF found = <<>> THEN <<>> ELSE Downsample(found[Len(found)].coords)

MinLat(coords) ==
    CHOOSE m \in {coords[k][2] : k \in 1..Len(coords)} :
        \A k \in 1..Len(coords) : m <= coords[k][2]
MaxLat(coords) ==
    CHOOSE m \in {coords[k][2] : k \in 1..Len(coords)} :
        \A k \in 1..Len(coords) : m >= coords[k][2]
LatBandMin == -68
LatBandMax == 68
\* lines 62-67: the pair is skipped
PairSkipped(coords1, coords2) ==
    \/ MaxLat(coords1) < MinLat(coords2) \/ MaxLat(coords2) < MinLat(coords1)
    \/ MaxLat(coords1) < LatBandMin \/ MinLat(coords1) > LatBandMax
    \/ MaxLat(coords2) < LatBandMin \/ MinLat(coords2) > LatBandMax
\* a plausible slip: the band test on the intersection is left out
AnyLatitude(lat) == TRUE
\* not (abs(lat) > 68)
InBand(lat) == Abs(lat.n) <= 68 * lat.d
\* a plausible slip: a planet is paired with itself too
NeverSamePlanet(i, j) == FALSE
\* if i == j: continue
SamePlanet(i, j) == i = j

ParanFeature(pt, p1, l1, p2, l2) ==
    [geometry |-> draw_lat_line(pt.lat),
     intersection_lat |-> pt.lat, intersection_lon |-> pt.lon,
     source_lines |-> << <<p1, l1>>, <<p2, l2>> >>,
     label |-> p1 \o " " \o l1 \o " crossing " \o p2 \o " " \o l2,
     type |-> "crossing_latitude"]

\* lines 69-96: every segment of coords1 against every segment of coords2,
\* in the order of the two loops
SegmentPairFeatures(p1, l1, coords1, p2, l2, coords2) ==
    LET n2 == Len(coords2) - 1
        kOf(idx) == ((idx - 1) \div n2) + 1
        lOf(idx) == ((idx - 1) % n2) + 1
        at(idx) == SegIntersection(coords1[kOf(idx)], coords1[kOf(idx) + 1],
                                   coords2[lOf(idx)], coords2[lOf(idx) + 1])
        hit(idx) == TheOne({ x.kind = "Point" /\ InBand(x.lat)
                             : x \in {at(idx)} })
        hits == SelectSeq([idx \in 1..((Len(coords1) - 1) * n2) |-> idx], hit)
    IN  [h \in 1..Len(hits) |-> ParanFeature(at(hits[h]), p1, l1, p2, l2)]

\* lines 53-96 for one p1, l1, p2, l2
LinePairFeatures(aspect_lines, p1, l1, p2, l2) ==
    TheOne({ IF c[1] = <<>> \/ c[2] = <<>> THEN <<>>
             ELSE IF PairSkipped(c[1], c[2]) THEN <<>>
             ELSE SegmentPairFeatures(p1, l1, c[1], p2, l2, c[2])
             : c \in {<<LineMapGet(aspect_lines, p1, l1),
                        LineMapGet(aspect_lines, p2, l2)>>} })

\* lines 46-52: the loops over i, j, l1, l2, flattened in loop order
HorizonTypes == <<"AC", "DC">>
MeridianTypes == <<"MC", "IC">>
RECURSIVE CrossingsFrom(_, _, _)
CrossingsFrom(aspect_lines, planets, c) ==
    LET n == Len(planets)
        i == (c \div (4 * n)) + 1
        j == ((c \div 4) % n) + 1
        l1 == HorizonTypes[((c \div 2) % 2) + 1]
        l2 == MeridianTypes[(c % 2) + 1]
    IN  IF c >= 4 * n * n THEN <<>>
        ELSE (IF SamePlanet(i, j) THEN <<>>
              ELSE LinePairFeatures(aspect_lines, planets[i], l1,
                                    planets[j], l2))
             \o CrossingsFrom(aspect_lines, planets, c + 1)

find_line_crossings_and_latitude_lines(aspect_lines) ==
    CrossingsFrom(aspect_lines, LineMapPlanets(aspect_lines, 1, <<>>), 0)

\* ---- inputs: polylines through or near the point (10, 30)
LongLineLen == 360
\* rises from (0, 20) to (20, 40): crosses longitude 10 at latitude 30
Rising == << <<0, 20>>, <<20, 40>> >>
\* crosses longitude 10 at latitudes 30 and 50
ZigZag == << <<0, 20>>, <<20, 40>>, <<0, 60>> >>
\* crosses longitude 10 at latitude 70, outside the band
HighCrossing == << <<0, 60>>, <<20, 80>> >>
\* lies wholly above the band
AboveBand == << <<0, 70>>, <<20, 80>> >>
\* LongLineLen points: a staircase from (-179, 20) to (0, 20), then the
\* last point (20, 40)
LongRising ==
    [k \in 1..LongLineLen |->
        IF k = LongLineLen THEN <<20, 40>>
        ELSE <<((k - 1) \div 2) - 179, 20 + ((k - 1) % 2)>>]
Meridian10 == << <<10, -85>>, <<10, 85>> >>
\* the same meridian with a vertex at (10, 30)
Meridian10Vertex == << <<10, -85>>, <<10, 30>>, <<10, 85>> >>
\* the meridian above latitude 50
Meridian10North == << <<10, 50>>, <<10, 85>> >>

HorizonOptions == {<<>>, Rising, ZigZag, HighCrossing, AboveBand, LongRising}
MeridianOptions == {<<>>, Meridian10, Meridian10Vertex, Meridian10North}
Absent == [name |-> <<>>, coords |-> <<>>]
\* the dict aspect_lines, in insertion order
AspectLineDicts ==
    LET entries(name, opts) == {[name |-> name, coords |-> c] : c \in opts}
                                  \cup {Absent}
        present(e) == e.name # <<>>
    IN  { SelectSeq(<<a, b, c, d, e, f>>, present) :
            a \in entries(<<"Sun", "AC">>, HorizonOptions),
            b \in entries(<<"Moon", "MC">>, MeridianOptions \ {<<>>}),
            c \in entries(<<"Sun", "MC">>, {Meridian10}),
            d \in entries(<<"Moon", "DC">>, {Rising}),
            e \in entries(<<"Mars", "ASPECT", "MC">>, {Meridian10}),
            f \in entries(<<"Mars">>, {Rising}) }

CallFindCrossings ==
    /\ Idle
    /\ \E aspect_lines \in AspectLineDicts :
        pr' = [op |-> "find_line_crossings_and_latitude_lines",
               aspect_lines |-> aspect_lines,
               features |-> find_line_crossings_and_latitude_lines(aspect_lines)]
    /\ UNCHANGED <<sd, ps, hz, aa, hl, rs, al, mi, mr, ds, ad, hd, bs, ss>>

NextParans == CallFindCrossings

SpecParans == Init /\ [][NextParans]_vars

\* ----------------- claims, find_line_crossings_and_latitude_lines
prCalled == pr.op = "find_line_crossings_and_latitude_lines"
InputNames == {pr.aspect_lines[k].name : k \in 1..Len(pr.aspect_lines)}
\* the candidate pairs of the input: an AC or DC line and an MC or IC line
\* of a different body, as indices into the input
CandidatePairs ==
    {ab \in (1..Len(pr.aspect_lines)) \X (1..Len(pr.aspect_lines)) :
        LET a == pr.aspect_lines[ab[1]].name
            b == pr.aspect_lines[ab[2]].name
        IN  /\ Len(a) = 2 /\ a[2] \in {"AC", "DC"}
            /\ Len(b) = 2 /\ b[2] \in {"MC", "IC"}
            /\ a[1] # b[1]}
\* the features reported for a pair
FeaturesOf(ab) ==
    {f \in 1..Len(pr.features) :
        pr.features[f].source_lines = <<pr.aspect_lines[ab[1]].name,
                                        pr.aspect_lines[ab[2]].name>>}
\* what the segments of two polylines have in common, pair by pair
Meetings(coords1, coords2) ==
    {SegIntersection(coords1[k], coords1[k + 1], coords2[l], coords2[l + 1]) :
        k \in 1..(Len(coords1) - 1), l \in 1..(Len(coords2) - 1)}
\* the distinct points inside the band where two polylines meet
CrossingPoints(coords1, coords2) ==
    {x \in Meetings(coords1, coords2) :
        x.kind = "Point" /\ Abs(x.lat.n) <= 68 * x.lat.d}
\* the polylines cross at a single point, inside the band
SingleCrossing(coords1, coords2) ==
    /\ \A x \in Meetings(coords1, coords2) : x.kind # "LineString"
    /\ Cardinality({x \in Meetings(coords1, coords2) : x.kind = "Point"}) = 1
    /\ Cardinality(CrossingPoints(coords1, coords2)) = 1
\* two fractions differ by at most 0.1
RatClose(a, b) == 10 * Abs((a.n * b.d) - (b.n * a.d)) <= a.d * b.d
LatsOf(coords) == {coords[k][2] : k \in 1..Len(coords)}

\* C16: every feature names exactly two source lines, an AC or DC line of
\* one body and an MC or IC line of a different body, both of them lines of
\* the input; never two lines of one body, two horizon lines, two meridian
\* lines or an aspect line.
C16_HorizonWithOtherMeridian ==
    prCalled =>
        \A f \in 1..Len(pr.features) :
            LET sl == pr.features[f].source_lines
            IN  /\ Len(sl) = 2
                /\ Len(sl[1]) = 2 /\ sl[1][2] \in {"AC", "DC"}
                /\ Len(sl[2]) = 2 /\ sl[2][2] \in {"MC", "IC"}
                /\ sl[1][1] # sl[2][1]
                /\ sl[1] \in InputNames /\ sl[2] \in InputNames

\* features came back from an input in which a body's own AC and MC lines
\* cross and an aspect line crosses an AC line
C16_Witness ==
    /\ prCalled
    /\ pr.features # <<>>
    /\ [name |-> <<"Sun", "AC">>, coords |-> Rising] \in
           {pr.aspect_lines[k] : k \in 1..Len(pr.aspect_lines)}
    /\ <<"Sun", "MC">> \in InputNames
    /\ <<"Mars", "ASPECT", "MC">> \in InputNames

\* C17: every feature has intersection_lat within [-68, 68] and its
\* geometry is the line of that latitude from longitude -180 to 180 in
\* steps of one degree; a pair whose latitude ranges do not overlap, or one
\* of whose lines lies wholly above or wholly below the band, has no feature.
C17_LatitudeInBand ==
    prCalled =>
        /\ \A f \in 1..Len(pr.features) :
              LET lat == pr.features[f].intersection_lat
                  g == pr.features[f].geometry
              IN  /\ -68 * lat.d <= lat.n /\ lat.n <= 68 * lat.d
                  /\ Len(g) = 361
                  /\ \A k \in 1..Len(g) :
                        g[k] = <<[n |-> k - 181, d |-> 1], lat>>
        /\ \A ab \in CandidatePairs :
              LET la == LatsOf(pr.aspect_lines[ab[1]].coords)
                  lb == LatsOf(pr.aspect_lines[ab[2]].coords)
                  apart == \/ \A x \in la, y \in lb : x < y
                           \/ \A x \in la, y \in lb : y < x
                  outside(ls) == \/ \A x \in ls : x > 68
                                 \/ \A x \in ls : x < -68
              IN  (apart \/ outside(la) \/ outside(lb)) => FeaturesOf(ab) = {}

\* a feature came back although the Sun's AC line crosses the Moon's MC
\* line at latitude 70
C17_Witness ==
    /\ prCalled
    /\ pr.features # <<>>
    /\ \E ab \in CandidatePairs :
          /\ pr.aspect_lines[ab[1]].coords = HighCrossing
          /\ pr.aspect_lines[ab[2]].coords = Meridian10
          /\ FeaturesOf(ab) = {}

\* C18 as stated: whenever the lines of a candidate pair, of any length,
\* cross at a single point inside the band, a feature names both lines and
\* has the latitude of the crossing within 0.1 degree.
C18_SingleCrossingReported ==
    prCalled =>
        \A ab \in CandidatePairs :
            LET c1 == pr.aspect_lines[ab[1]].coords
                c2 == pr.aspect_lines[ab[2]].coords
            IN  SingleCrossing(c1, c2) =>
                    \E f \in FeaturesOf(ab), x \in CrossingPoints(c1, c2) :
                        RatClose(pr.features[f].intersection_lat, x.lat)

\* C18 as amended: the same for lines of fewer than 360 points, which the
\* finder compares as they are given.
C18_ShortLinesCrossingReported ==
    prCalled =>
        \A ab \in CandidatePairs :
            LET c1 == pr.aspect_lines[ab[1]].coords
                c2 == pr.aspect_lines[ab[2]].coords
            IN  (Len(c1) < 360 /\ Len(c2) < 360 /\ SingleCrossing(c1, c2)) =>
                    \E f \in FeaturesOf(ab), x \in CrossingPoints(c1, c2) :
                        RatClose(pr.features[f].intersection_lat, x.lat)

\* the Sun's AC line and the Moon's MC line cross at (10, 30) and a feature
\* at latitude 30 names both
C18_Witness ==
    /\ prCalled
    /\ \E ab \in CandidatePairs :
          /\ pr.aspect_lines[ab[1]] = [name |-> <<"Sun", "AC">>, coords |-> Rising]
          /\ pr.aspect_lines[ab[2]] =
                 [name |-> <<"Moon", "MC">>, coords |-> Meridian10]
          /\ \E f \in FeaturesOf(ab) :
                /\ pr.features[f].intersection_lat = [n |-> 30, d |-> 1]
                /\ pr.features[f].intersection_lon = [n |-> 10, d |-> 1]

\* C19 as stated: for each candidate pair the features are as many as the
\* distinct points inside the band where the two lines, as the finder
\* compares them, meet: every crossing is kept and none is reported twice.
C19_EachCrossingOnce ==
    prCalled =>
        \A ab \in CandidatePairs :
            LET c1 == Downsample(pr.aspect_lines[ab[1]].coords)
                c2 == Downsample(pr.aspect_lines[ab[2]].coords)
            IN  (Len(c1) >= 2 /\ Len(c2) >= 2) =>
                    Cardinality(FeaturesOf(ab))
                        = Cardinality(CrossingPoints(c1, c2))

\* ============================== calculate_mc_line, calculate_ic_line
\* Angles are whole degrees.
\* a plausible slip: the longitude is left in 0..360
NotNormalized(lon) == lon
\* if lon > 180: lon -= 360
NormalizeLon(lon) == IF lon > 180 THEN lon - 360 ELSE lon
MeridianFeature(lon, pname, line_type) ==
    [type |-> "Feature",
     geometry |-> [type |-> "LineString",
                   coordinates |-> << <<lon, -85>>, <<lon, 85>> >>],
     properties |-> [planet |-> pname, line_type |-> line_type]]
\* calculate_mc_line, gmst being swe.sidtime(jd) * 15.0
calculate_mc_line(gmst, ra_planet, pname) ==
    MeridianFeature(NormalizeLon((ra_planet - gmst) % 360), pname, "MC")
\* calculate_ic_line
calculate_ic_line(gmst, ra_planet, pname) ==
    MeridianFeature(NormalizeLon((((ra_planet - gmst) % 360) + 180) % 360),
                    pname, "IC")

\* right ascensions, inside and outside 0..360, and sidereal times in degrees
RightAscensions ==
    {-360, -181, -180, -1, 0, 1, 90, 179, 180, 181, 270, 359, 360, 540}
GmstDegrees == {0, 1, 90, 179, 180, 181, 270, 359}

\* the caller asks for the MC line of a body ...
CallMcLine ==
    /\ Idle
    /\ \E gmst \in GmstDegrees, ra \in RightAscensions :
        mi' = [op |-> "calculate_mc_line", gmst |-> gmst, ra_planet |-> ra,
               mc |-> calculate_mc_line(gmst, ra, "Sun"),
               ic |-> [type |-> "none"]]
    /\ UNCHANGED <<sd, ps, hz, aa, hl, rs, al, pr, mr, ds, ad, hd, bs, ss>>

\* ... and then for its IC line
CallIcLine ==
    /\ mi # NoCall
    /\ mi.op = "calculate_mc_line"
    /\ mi' = [mi EXCEPT !.op = "calculate_ic_line",
                        !.ic = calculate_ic_line(mi.gmst, mi.ra_planet, "Sun")]
    /\ UNCHANGED <<sd, ps, hz, aa, hl, rs, al, pr, mr, ds, ad, hd, bs, ss>>

NextMeridian ==
    \/ CallMcLine
    \/ CallIcLine

SpecMeridian == Init /\ [][NextMeridian]_vars

\* ------------------------ claims, calculate_mc_line, calculate_ic_line
miCalled == mi.op \in {"calculate_mc_line", "calculate_ic_line"}
\* two points at latitudes -85 and 85 sharing one longitude in -180..180
MeridianShape(feature) ==
    LET c == feature.geometry.coordinates
    IN  /\ Len(c) = 2
        /\ c[1][2] = -85 /\ c[2][2] = 85
        /\ c[1][1] = c[2][1]
        /\ c[1][1] \in -180..180

\* C20: the MC line and the IC line are each two points at latitudes -85
\* and 85 sharing a longitude in [-180, 180]; the MC longitude is congruent
\* to RA - GST modulo 360, the IC longitude differs from the MC longitude by
\* 180 modulo 360; RA 0 and GST 0 give MC 0 and IC 180 or -180.
C20_MeridianLines ==
    /\ miCalled =>
          /\ MeridianShape(mi.mc)
          /\ (mi.mc.geometry.coordinates[1][1] - (mi.ra_planet - mi.gmst)) % 360 = 0
          /\ (mi.ra_planet = 0 /\ mi.gmst = 0) =>
                 mi.mc.geometry.coordinates[1][1] = 0
    /\ (miCalled /\ mi.op = "calculate_ic_line") =>
          /\ MeridianShape(mi.ic)
          /\ (mi.ic.geometry.coordinates[1][1]
                 - mi.mc.geometry.coordinates[1][1] - 180) % 360 = 0
          /\ (mi.ra_planet = 0 /\ mi.gmst = 0) =>
                 mi.ic.geometry.coordinates[1][1] \in {180, -180}

\* the boundary case: RA 0 and GST 0 gave MC 0 and IC 180
C20_Witness ==
    /\ miCalled
    /\ mi.op = "calculate_ic_line"
    /\ mi.ra_planet = 0 /\ mi.gmst = 0
    /\ mi.mc.geometry.coordinates = << <<0, -85>>, <<0, 85>> >>
    /\ mi.ic.geometry.coordinates = << <<180, -85>>, <<180, 85>> >>

\* ======================================= ecl_lon_of_mc, geo_lon_for_mc
\* Angles are whole degrees (np.deg2rad and np.rad2deg only change the
\* unit), sines and cosines are in units of 1/10000, and the obliquity is
\* given by its cosine in units of 1/1000.
SinTable ==
    <<
      0, 175, 349, 523, 698, 872, 1045, 1219, 1392, 1564, 1736, 1908,
      2079, 2250, 2419, 2588, 2756, 2924, 3090, 3256, 3420, 3584, 3746,
      3907, 4067, 4226, 4384, 4540, 4695, 4848, 5000, 5150, 5299, 5446,
      5592, 5736, 5878, 6018, 6157, 6293, 6428, 6561, 6691, 6820, 6947,
      7071, 7193, 7314, 7431, 7547, 7660, 7771, 7880, 7986, 8090, 8192,
      8290, 8387, 8480, 8572, 8660, 8746, 8829, 8910, 8988, 9063, 9135,
      9205, 9272, 9336, 9397, 9455, 9511, 9563, 9613, 9659, 9703, 9744,
      9781, 9816, 9848, 9877, 9903, 9925, 9945, 9962, 9976, 9986, 9994,
      9998, 10000
    >>
SinE4(a) ==
    LET m == a % 360
    IN  IF m <= 90 THEN SinTable[m + 1]
        ELSE IF m <= 180 THEN SinTable[(180 - m) + 1]
        ELSE IF m <= 270 THEN -SinTable[(m - 180) + 1]
        ELSE -SinTable[(360 - m) + 1]
CosE4(a) == SinE4(a + 90)
\* np.arctan2(y, x) in degrees, to the nearest degree, in -179..180: the
\* direction a that faces (x, y) and at which x sin a - y cos a changes sign
Atan2Deg(y, x) ==
    LET cross(a) == (x * SinE4(a)) - (y * CosE4(a))
        facing(a) == (x * CosE4(a)) + (y * SinE4(a)) > 0
        below == CHOOSE a \in -180..179 :
                     facing(a) /\ cross(a) <= 0 /\ cross(a + 1) > 0
        near == IF -cross(below) <= cross(below + 1) THEN below ELSE below + 1
    IN  IF x = 0 /\ y = 0 THEN 0
        ELSE IF near = -180 THEN 180 ELSE near
\* cos(obliq) times a sine
TimesCos(cos_obliq, v) == (cos_obliq * v) \div 1000

ecl_lon_of_mc(gst_deg, geo_lon_deg, cos_obliq) ==
    TheOne({ Atan2Deg(TimesCos(cos_obliq, SinE4(lst)), CosE4(lst)) % 360
             : lst \in {(gst_deg + geo_lon_deg) % 360} })

\* a plausible slip: the result is left in 0..360
GeoLonNotCentred(lst_deg, gst_deg) == (lst_deg - gst_deg) % 360
\* ((lst_deg - gst_deg + 540) % 360) - 180
GeoLonCentred(lst_deg, gst_deg) == ((lst_deg - gst_deg + 540) % 360) - 180
geo_lon_for_mc(target_ecl_lon, gst_deg, cos_obliq) ==
    GeoLonCentred(
        Atan2Deg(TimesCos(cos_obliq, SinE4(target_ecl_lon)),
                 CosE4(target_ecl_lon)) % 360,
        gst_deg)

\* target ecliptic longitudes, sidereal times, and the cosines of the
\* obliquities 0 and 23.44 degrees
TargetLons == 0..359
GstDegrees == {0, 50, 181, 359}
CosObliquities == {1000, 917}

\* the derived geographic longitude and the Midheaven longitude there
CallMcRoundTrip ==
    /\ Idle
    /\ \E target \in TargetLons, gst \in GstDegrees, c \in CosObliquities :
        \E geo \in {geo_lon_for_mc(target, gst, c)} :
            mr' = [op |-> "geo_lon_for_mc", target |-> target, gst_deg |-> gst,
                   cos_obliq |-> c, geo_lon |-> geo,
                   mc_ecl |-> ecl_lon_of_mc(gst, geo, c)]
    /\ UNCHANGED <<sd, ps, hz, aa, hl, rs, al, pr, mi, ds, ad, hd, bs, ss>>

NextMcRoundTrip == CallMcRoundTrip

SpecMcRoundTrip == Init /\ [][NextMcRoundTrip]_vars

\* ----------------------------- claims, ecl_lon_of_mc, geo_lon_for_mc
mrCalled == mr.op = "geo_lon_for_mc"
\* the distance of two angles modulo 360
AngleApart(a, b) == Min2((a - b) % 360, (b - a) % 360)

\* C21: with obliquity 0 the Midheaven longitude at the derived geographic
\* longitude is the target again (modulo 360), and the derived geographic
\* longitude lies in [-180, 180] for every obliquity.
C21_RoundTripAtZeroObliquity ==
    mrCalled =>
        /\ mr.geo_lon \in -180..180
        /\ mr.cos_obliq = 1000 => AngleApart(mr.mc_ecl, mr.target) = 0

\* obliquity 0, a target in the third quadrant and a sidereal time that
\* makes the geographic longitude negative
C21_Witness ==
    /\ mrCalled
    /\ mr.cos_obliq = 1000 /\ mr.target = 225 /\ mr.gst_deg = 50
    /\ mr.geo_lon = 175 /\ mr.mc_ecl = 225

\* C25 as stated: for every obliquity the Midheaven longitude at the derived
\* geographic longitude is the target, to the degree the angles are
\* resolved to.
C25_InverseForEveryObliquity ==
    mrCalled => AngleApart(mr.mc_ecl, mr.target) <= 1

\* ------------------------------------ claims, split_dateline (frame)
\* the indices at which a run of the input starts: the first, and every
\* index whose longitude is more than 180 away from the one before
RunStarts ==
    {i \in 1..Len(sd.seq) :
        i = 1 \/ Abs(sd.seq[i][1] - sd.seq[i - 1][1]) > 180}
\* the run that starts at index b
RunAt(b) ==
    LET later == {i \in RunStarts : i > b}
        last == IF later = {} THEN Len(sd.seq)
                ELSE (CHOOSE m \in later : \A j \in later : m <= j) - 1
    IN  SubSeq(sd.seq, b, last)
\* the runs that start at the indices of kept, in input order, from index i
RECURSIVE KeptRuns(_, _)
KeptRuns(kept, i) ==
    IF i > Len(sd.seq) THEN <<>>
    ELSE (IF i \in kept THEN <<RunAt(i)>> ELSE <<>>) \o KeptRuns(kept, i + 1)
RECURSIVE Flatten(_)
Flatten(segments) ==
    IF segments = <<>> THEN <<>>
    ELSE Head(segments) \o Flatten(Tail(segments))

\* C27: the segments split_dateline returns are runs of the input, whole
\* and unaltered, in input order: some of the runs that start at the first
\* index and at each jump of more than 180 degrees, none of them empty; when
\* no run is discarded their concatenation is the input.
C27_SegmentsAreInputRuns ==
    (sdCalled /\ Len(sd.seq) > 0) =>
        /\ \E kept \in SUBSET RunStarts :
              sd.out.segments = KeptRuns(kept, 1)
        /\ \A s \in 1..Len(sd.out.segments) : sd.out.segments[s] # <<>>
        /\ Len(sd.out.segments) = Cardinality(RunStarts) =>
               Flatten(sd.out.segments) = sd.seq

\* three runs, the middle one discarded, the other two returned unchanged
C27_Witness ==
    /\ sdCalled
    /\ Cardinality(RunStarts) = 3
    /\ sd.out.segments = KeptRuns({1, Len(sd.seq)}, 1)
    /\ Len(sd.out.segments) = 2
    /\ Len(RunAt(2)) = 2

\* ------------------------ claims, generate_horizon_line (anchor path)
\* the rise and the set point of a latitude, from the chart of the call
RisePoint(lat) ==
    <<(((hz.ra_deg - ArccosDeg(CosHMilli(lat, hz.dec))) - hz.gst_deg + 540)
          % 360) - 180, lat>>
SetPoint(lat) ==
    <<(((hz.ra_deg + ArccosDeg(CosHMilli(lat, hz.dec))) - hz.gst_deg + 540)
          % 360) - 180, lat>>

\* C23 as stated: the anchor path is the rise points of the V visible
\* latitudes in ascending latitude, then the set points in descending
\* latitude without the first of them, 2V - 1 points, and the set point left
\* out is the same point as the last rise point, so no distinct anchor is
\* lost.
C23_RemovedSetPointIsDuplicate ==
    (hzCalled /\ Len(hz.out.lat_vis) > 0) =>
        LET lv == hz.out.lat_vis
            V == Len(lv)
        IN  /\ V = NumVisible
            /\ \A i \in 1..(V - 1) : lv[i] < lv[i + 1]
            /\ Len(hz.out.pts) = (2 * V) - 1
            /\ \A i \in 1..V : hz.out.pts[i] = RisePoint(lv[i])
            /\ \A i \in 1..(V - 1) : hz.out.pts[V + i] = SetPoint(lv[V - i])
            /\ SetPoint(lv[V]) = RisePoint(lv[V])

\* ------------------------ claims, calculate_aspect_lines (metadata)
\* C29 as stated: no two features of the result carry the same planet,
\* angle, to and label, so the line of an offset +a can be told from the
\* line of the offset -a.
C29_FeaturesDistinguishable ==
    al.op = "calculate_aspect_lines" =>
        \A f \in 1..Len(al.features), g \in 1..Len(al.features) :
            (/\ al.features[f].planet = al.features[g].planet
             /\ al.features[f].angle = al.features[g].angle
             /\ al.features[f].to = al.features[g].to
             /\ al.features[f].label = al.features[g].label) => f = g

\* ============================ the downsampling step of the paran finder
\* a line of n points, point k at longitude k - 1: the longitude of a kept
\* point is its 0-based index in the input
IndexedLine(n) == [k \in 1..n |-> <<k - 1, 0>>]

\* line 34 applied to a line of n points
CallDownsample ==
    /\ Idle
    /\ \E n \in 0..MaxLineLen :
        ds' = [op |-> "downsample", n |-> n,
               out |-> Downsample(IndexedLine(n))]
    /\ UNCHANGED <<sd, ps, hz, aa, hl, rs, al, pr, mi, mr, ad, hd, bs, ss>>

NextDownsample == CallDownsample

SpecDownsample == Init /\ [][NextDownsample]_vars

\* ------------------------------------ claims, the downsampling step
dsCalled == ds.op = "downsample"
\* s = max(1, n div 180)
StepOf(n) == IF n \div 180 >= 1 THEN n \div 180 ELSE 1

\* C30 as stated: the kept points are those at the indices 0, s, 2s, ...
\* with s = max(1, n div 180), and the first and the last input point are
\* among them for every n.
C30_FirstAndLastKept ==
    (dsCalled /\ ds.n > 0) =>
        /\ \A j \in 1..Len(ds.out) : ds.out[j][1] = (j - 1) * StepOf(ds.n)
        /\ ds.out[1][1] = 0
        /\ ds.out[Len(ds.out)][1] = ds.n - 1

\* C30 as amended: the kept points are those at the indices 0, s, 2s, ...
\* below n with s = max(1, n div 180); the first point is always kept, the
\* last one exactly when s divides n - 1; a line of fewer than 180 points
\* keeps all its points, a longer one between 180 and 359.
C30_KeptIndices ==
    dsCalled =>
        /\ Len(ds.out) = (ds.n + StepOf(ds.n) - 1) \div StepOf(ds.n)
        /\ \A j \in 1..Len(ds.out) : ds.out[j][1] = (j - 1) * StepOf(ds.n)
        /\ ds.n > 0 =>
              /\ ds.out[1][1] = 0
              /\ (ds.out[Len(ds.out)][1] = ds.n - 1)
                    <=> ((ds.n - 1) % StepOf(ds.n) = 0)
        /\ IF ds.n < 180 THEN Len(ds.out) = ds.n
           ELSE Len(ds.out) \in 180..359

\* a line of 360 points is left with 180 points and without its last one
C30_Witness ==
    /\ dsCalled
    /\ ds.n = 360
    /\ Len(ds.out) = 180
    /\ ds.out[180][1] = 358

\* ========== generate_all_astrocartography_features: AC and DC for parans
\* seq[start:stop] of Python for indices that are not negative
PySlice(seq, start, stop) == SubSeq(seq, start + 1, Min2(stop, Len(seq)))

\* the "segments" property of a HORIZON feature as the list of its two
\* entries
SegmentInfos(segs) ==
    <<[label |-> "AC", start |-> 0, end |-> segs.ac_end],
      [label |-> "DC", start |-> segs.dc_start, end |-> segs.dc_end]>>

\* lines 257-288: for seg, seg_info in zip(segments, segs), segments being
\* [coords] for a LineString and coords for a MultiLineString
AcDcForParans(geomType, paths, segs) ==
    LET segments == IF geomType = "LineString" THEN <<paths[1]>> ELSE paths
        infos == SegmentInfos(segs)
    IN  [k \in 1..Min2(Len(segments), Len(infos)) |->
            [line_type |-> infos[k].label,
             geometry |-> [type |-> "LineString",
                           coordinates |-> PySlice(segments[k], infos[k].start,
                                                   infos[k].end + 1)]]]

\* the HORIZON feature generate_horizon_line returned is split into the
\* lines kept for the paran detection
DeriveAcDcForParans ==
    /\ hz # NoCall
    /\ ad = NoCall
    /\ hz.out.ret = "Feature"
    /\ ad' = [op |-> "acdc_segments_for_parans",
              lines |-> AcDcForParans(hz.out.geomType, hz.out.paths,
                                      hz.out.segs)]
    /\ UNCHANGED <<sd, ps, hz, aa, hl, rs, al, pr, mi, mr, ds, hd, bs, ss>>

NextAcDc ==
    \/ CallGenerateHorizonLine
    \/ DeriveAcDcForParans

SpecAcDc == Init /\ [][NextAcDc]_vars

\* ------------------------------ claims, AC and DC lines for the parans
adCalled == ad.op = "acdc_segments_for_parans"
\* the derived lines with a label
LinesLabelled(label) ==
    {k \in 1..Len(ad.lines) : ad.lines[k].line_type = label}
\* the points of the feature's geometry at the 0-based indices start..end
LabelledPoints(start, end) == PySlice(Flatten(hz.out.paths), start, end + 1)

\* C24 as stated: from every HORIZON feature, LineString or
\* MultiLineString, one AC line is derived that consists of exactly the
\* points labelled AC, and one DC line that consists of exactly the points
\* labelled DC.
C24_OneAcOneDcLine ==
    adCalled =>
        /\ Cardinality(LinesLabelled("AC")) = 1
        /\ Cardinality(LinesLabelled("DC")) = 1
        /\ \A k \in LinesLabelled("AC") :
              ad.lines[k].geometry.coordinates
                  = LabelledPoints(0, hz.out.segs.ac_end)
        /\ \A k \in LinesLabelled("DC") :
              ad.lines[k].geometry.coordinates
                  = LabelledPoints(hz.out.segs.dc_start, hz.out.segs.dc_end)

\* ========================================== HumanDesignLayer.__init__
\* The Redis store is the set of keys that hold a design datetime.  The
\* design datetime is kept by how it was obtained: "cached", "solved" (the
\* loop was left) or "fallback" (birth minus 88 days).  diff, the signed
\* angular error of the guess, is in units of 1/10000 degree.
Births == {1, 2}
\* _generate_cache_key: the md5 of the four inputs, one key for each
\* combination of them
generate_cache_key(birth_dt, lat, lon, tzinfo) == <<birth_dt, lat, lon, tzinfo>>
UnsetAttr == <<"no attribute">>
SolverIterations == 15
\* abs(diff) < 1e-4
Converged(diff) == Abs(diff) < 1
InitialDiffs == {0, 4}
\* what the Sun's longitude at the adjusted guess leaves of the error:
\* nothing, half of it, or the same error with the other sign
DiffAfter(diff) == {0, (diff * 2) \div 4, -diff}

\* __init__ up to the call of _calc_design_datetime: the attributes
\* birth_dt, lat, lon, tzinfo, opts are set, cache_key is not yet.
\* REDIS_AVAILABLE is fixed when the module is loaded.
HdConstruct ==
    /\ \/ Idle
       \/ /\ hd # NoCall /\ hd.pc = "done" /\ hd.n < MaxConstructions
    /\ \E birth \in Births, avail \in BOOLEAN :
        /\ hd # NoCall => avail = hd.redis_available
        /\ hd' = [op |-> "HumanDesignLayer", pc |-> "read",
                  n |-> IF hd = NoCall THEN 1 ELSE hd.n + 1,
                  redis_available |-> avail,
                  store |-> IF hd = NoCall THEN {} ELSE hd.store,
                  birth_dt |-> birth, cache_key |-> UnsetAttr,
                  i |-> 0, diff |-> 0, solver_ran |-> FALSE,
                  design |-> "none",
                  first |-> IF hd = NoCall
                            THEN [birth_dt |-> 0, design |-> "none"]
                            ELSE [birth_dt |-> hd.birth_dt,
                                  design |-> hd.design]]
    /\ UNCHANGED <<sd, ps, hz, aa, hl, rs, al, pr, mi, mr, ds, ad, bs, ss>>

\* lines 107-117: the cache read.  Reading self.cache_key raises
\* AttributeError while the attribute is not set, the Redis server may be
\* down (up = FALSE); both are caught and the computation goes on.
HdCacheRead ==
    /\ hd # NoCall /\ hd.pc = "read"
    /\ \E up \in BOOLEAN :
        hd' = IF /\ hd.redis_available /\ hd.cache_key # UnsetAttr /\ up
                 /\ hd.cache_key \in hd.store
              THEN [hd EXCEPT !.pc = "assign", !.design = "cached"]
              ELSE [hd EXCEPT !.pc = "sun"]
    /\ UNCHANGED <<sd, ps, hz, aa, hl, rs, al, pr, mi, mr, ds, ad, bs, ss>>

\* lines 119-139: the Sun at birth; swe.calc_ut may raise, and then the
\* fallback is returned at once
HdSunAtBirth ==
    /\ hd # NoCall /\ hd.pc = "sun"
    /\ \/ hd' = [hd EXCEPT !.pc = "assign", !.design = "fallback"]
       \/ \E d \in InitialDiffs :
            hd' = [hd EXCEPT !.pc = "loop", !.i = 0, !.diff = d,
                             !.solver_ran = TRUE]
    /\ UNCHANGED <<sd, ps, hz, aa, hl, rs, al, pr, mi, mr, ds, ad, bs, ss>>

\* lines 141-167: one pass of "for iteration in range(15)", or its end
HdIterate ==
    /\ hd # NoCall /\ hd.pc = "loop"
    /\ \/ /\ hd.i >= SolverIterations
          /\ hd' = [hd EXCEPT !.pc = "write", !.design = "solved"]
       \/ /\ hd.i < SolverIterations
          /\ \/ hd' = [hd EXCEPT !.pc = "write", !.design = "solved"]
             \/ /\ Converged(hd.diff)
                /\ hd' = [hd EXCEPT !.pc = "write", !.design = "solved"]
             \/ /\ ~Converged(hd.diff)
                /\ \E d \in DiffAfter(hd.diff) :
                      hd' = [hd EXCEPT !.i = @ + 1, !.diff = d]
    /\ UNCHANGED <<sd, ps, hz, aa, hl, rs, al, pr, mi, mr, ds, ad, bs, ss>>

\* lines 169-175: the cache write, with the same two exceptions caught
HdCacheWrite ==
    /\ hd # NoCall /\ hd.pc = "write"
    /\ \E up \in BOOLEAN :
        hd' = IF hd.redis_available /\ hd.cache_key # UnsetAttr /\ up
              THEN [hd EXCEPT !.pc = "assign",
                              !.store = @ \cup {hd.cache_key}]
              ELSE [hd EXCEPT !.pc = "assign"]
    /\ UNCHANGED <<sd, ps, hz, aa, hl, rs, al, pr, mi, mr, ds, ad, bs, ss>>

\* lines 77-80: self.design_dt = ..., then self.cache_key = ...
HdFinish ==
    /\ hd # NoCall /\ hd.pc = "assign"
    /\ hd' = [hd EXCEPT !.pc = "done",
                        !.cache_key = generate_cache_key(hd.birth_dt, 10, 20, "UTC")]
    /\ UNCHANGED <<sd, ps, hz, aa, hl, rs, al, pr, mi, mr, ds, ad, bs, ss>>

NextHumanDesign ==
    \/ HdConstruct
    \/ HdCacheRead
    \/ HdSunAtBirth
    \/ HdIterate
    \/ HdCacheWrite
    \/ HdFinish

SpecHumanDesign == Init /\ [][NextHumanDesign]_vars

\* ------------------------------------- claims, HumanDesignLayer.__init__
hdCalled == hd.op = "HumanDesignLayer"

\* C26 as stated: with Redis available, a construction that solved the
\* design datetime has stored it under the key of its inputs, and a second
\* construction with the same inputs then returns the cached value without
\* running the solver; the solver never runs more than 15 iterations and a
\* finished construction has a design datetime.
C26_SecondConstructionCached ==
    hdCalled =>
        /\ hd.i <= 15
        /\ hd.pc = "done" => hd.design \in {"cached", "solved", "fallback"}
        /\ (hd.pc = "done" /\ hd.redis_available /\ hd.design = "solved")
               => generate_cache_key(hd.birth_dt, 10, 20, "UTC") \in hd.store
        /\ (/\ hd.pc = "done" /\ hd.n = 2 /\ hd.redis_available
            /\ hd.first.design = "solved" /\ hd.first.birth_dt = hd.birth_dt)
               => hd.design = "cached" /\ ~hd.solver_ran

\* ================= the bisection loop of _generate_asc_aspect_line
\* lines 242-254: the bracket of a latitude
Bracket(prev) ==
    IF prev.has
    THEN <<Max2(Deg(-180), prev.lon - Deg(BracketWidth)),
           Min2(Deg(180), prev.lon + Deg(BracketWidth))>>
    ELSE <<Deg(-180), Deg(180)>>
\* the solutions of the latitude before: none, or one of these longitudes
BisectPrevs ==
    {NoPrev} \cup {[has |-> TRUE, lon |-> Deg(d)] : d \in {-170, 0, 5, 10, 13, 175}}

\* lines 261-265: the residuals at the ends of the bracket show a sign
\* change and the loop is entered
BisectEnter ==
    /\ Idle
    /\ \E sky \in Skies, prev \in BisectPrevs :
        \E br \in {Bracket(prev)} :
            \E f \in {<<asc_residual(sky, TargetAsc, br[1]),
                        asc_residual(sky, TargetAsc, br[2])>>} :
                /\ ProductNonPositive(f[1], f[2])
                /\ Abs(f[1]) < Deg(ResidualCap)
                /\ Abs(f[2]) < Deg(ResidualCap)
                /\ bs' = [op |-> "bisection", pc |-> "iter", sky |-> sky,
                          lon_start |-> br[1], lon_end |-> br[2],
                          f_start |-> f[1], f_end |-> f[2], n |-> 0,
                          entry |-> <<f[1], f[2]>>,
                          solution_lon |-> 0, converged |-> FALSE]
    /\ UNCHANGED <<sd, ps, hz, aa, hl, rs, al, pr, mi, mr, ds, ad, hd, ss>>

\* lines 267-285: one iteration of "for _ in range(20)", or the midpoint
\* taken when the loop has run out
BisectIterate ==
    /\ bs # NoCall
    /\ bs.pc = "iter"
    /\ \E lon_mid \in {(bs.lon_start + bs.lon_end) \div 2} :
        \E f_mid \in {asc_residual(bs.sky, TargetAsc, lon_mid)} :
            bs' = IF bs.n >= MaxIterations
                  THEN [bs EXCEPT !.pc = "done", !.solution_lon = lon_mid]
                  ELSE IF Abs(f_mid) < Tolerance
                  THEN [bs EXCEPT !.pc = "done", !.solution_lon = lon_mid,
                                  !.converged = TRUE, !.n = @ + 1]
                  ELSE IF ProductNegative(bs.f_start, f_mid)
                  THEN [bs EXCEPT !.lon_end = lon_mid, !.f_end = f_mid,
                                  !.n = @ + 1]
                  ELSE [bs EXCEPT !.lon_start = lon_mid, !.f_start = f_mid,
                                  !.n = @ + 1]
    /\ UNCHANGED <<sd, ps, hz, aa, hl, rs, al, pr, mi, mr, ds, ad, hd, ss>>

NextBisect ==
    \/ BisectEnter
    \/ BisectIterate

SpecBisect == Init /\ [][NextBisect]_vars

\* -------------------------------------- claims, the bisection loop
\* C28 as stated: at the start of every iteration the residuals at the two
\* ends of the bracket have opposite signs or one of them is zero.
C28_BracketKeepsSignChange ==
    (bs.op = "bisection" /\ bs.pc = "iter") =>
        \/ bs.f_start <= 0 /\ bs.f_end >= 0
        \/ bs.f_start >= 0 /\ bs.f_end <= 0

\* ------------------------------------------------------------------
\* several generator calls in one interpreter session, with the state that
\* outlives a call

\* most calls in one session
MaxCalls == 3

\* the state that outlives a call once the modules are imported: the Swiss
\* Ephemeris settings (swe.set_ephe_path and swe.set_sid_mode run at import)
\* and __warningregistry__ of line_ac_dc, which warnings.warn keeps
ImportedModuleState ==
    [ephe_path |-> "ephe", sid_mode |-> "SIDM_LAHIRI", warningregistry |-> {}]

\* the key warnings.warn files the message of generate_horizon_line under:
\* its text holds the planet and the declination
WarningKey(planet, delta) == <<planet, delta>>

\* a registry that forgets nothing and also records the calls that do not warn
RegistryAlways(registry, warned, key) == registry \cup {key}
\* warnings.warn under the default filter: the key of an emitted warning is
\* recorded, and a call that does not warn leaves the registry alone
RegistryAfter(registry, warned, key) ==
    IF warned THEN registry \cup {key} ELSE registry

\* the session so far
SessionBefore ==
    IF ss = NoCall
    THEN [op |-> "session", module |-> ImportedModuleState, calls |-> <<>>]
    ELSE ss
CanCall ==
    /\ Idle \/ ss # NoCall
    /\ Len(SessionBefore.calls) < MaxCalls
\* one more call: what it was given, what its arguments hold afterwards, what
\* it returned, and the module state before and after
AfterCall(gen, input, input_after, output, module_after) ==
    /\ ss' = [op |-> "session", module |-> module_after,
              calls |-> Append(SessionBefore.calls,
                               [gen |-> gen, input |-> input,
                                input_after |-> input_after, output |-> output,
                                module_before |-> SessionBefore.module,
                                module_after |-> module_after])]
    /\ UNCHANGED <<sd, ps, hz, aa, hl, rs, al, pr, mi, mr, ds, ad, hd, bs>>

\* the arguments of the calls of a session
SessionSeqs == { << <<170, 0>>, <<-170, 10>> >>, << <<0, 0>>, <<100, 10>> >> }
SessionDeclinations == {20, 95}
SessionGrid == <<0, 30>>
SessionDensity == 2
SessionGmst == 50
SessionRa == 100
SessionPlanetLists ==
    {<<a>> : a \in AspectPlanets} \cup
    {<<a, b>> : a \in {p \in AspectPlanets : p.name = "Sun"},
                b \in {p \in AspectPlanets : p.name = "Eris"}}
SessionLineDicts ==
    { << [name |-> <<"Sun", "AC">>, coords |-> Rising],
         [name |-> <<"Moon", "MC">>, coords |-> Meridian10] >>,
      << [name |-> <<"Sun", "AC">>, coords |-> ZigZag],
         [name |-> <<"Moon", "MC">>, coords |-> Meridian10Vertex] >> }

\* split_dateline builds its segments in new lists
SessionSplitDateline ==
    /\ CanCall
    /\ \E seq \in SessionSeqs :
        AfterCall("split_dateline", [seq |-> seq], [seq |-> seq],
                  split_dateline(seq, DefaultMaxJump), SessionBefore.module)

\* generate_horizon_line reads chart, planet, lat_steps and density only; the
\* spline solve gives one result for one anchor path; above 90 degrees of
\* declination the call goes through warnings.warn
SessionHorizonLine ==
    /\ CanCall
    /\ \E delta \in SessionDeclinations :
        \E out \in {generate_horizon_line(delta, 0, 0, SessionGrid,
                        SessionDensity,
                        CHOOSE solve \in HorizonSolves(delta, 0, 0, SessionGrid,
                                                       SessionDensity) : TRUE)} :
            AfterCall("generate_horizon_line",
                      [planet |-> "Sun", dec |-> delta, lat_steps |-> SessionGrid],
                      [planet |-> "Sun", dec |-> delta, lat_steps |-> SessionGrid],
                      out,
                      [SessionBefore.module EXCEPT !.warningregistry =
                          RegistryAfter(@, out.warned, WarningKey("Sun", delta))])

\* calculate_mc_line and calculate_ic_line
SessionMeridianLine ==
    /\ CanCall
    /\ \E gen \in {"calculate_mc_line", "calculate_ic_line"} :
        AfterCall(gen, [gmst |-> SessionGmst, ra_planet |-> SessionRa],
                  [gmst |-> SessionGmst, ra_planet |-> SessionRa],
                  IF gen = "calculate_mc_line"
                  THEN calculate_mc_line(SessionGmst, SessionRa, "Sun")
                  ELSE calculate_ic_line(SessionGmst, SessionRa, "Sun"),
                  SessionBefore.module)

\* the MC loop of calculate_aspect_lines
SessionMcAspects ==
    /\ CanCall
    /\ \E planets \in SessionPlanetLists :
        AfterCall("calculate_aspect_lines", [planets |-> planets],
                  [planets |-> planets],
                  McFeatures(planet_positions(planets), 1),
                  SessionBefore.module)

\* find_line_crossings_and_latitude_lines rebinds coords to the downsampled
\* copy and builds its own line_map
SessionFindCrossings ==
    /\ CanCall
    /\ \E aspect_lines \in SessionLineDicts :
        AfterCall("find_line_crossings_and_latitude_lines",
                  [aspect_lines |-> aspect_lines],
                  [aspect_lines |-> aspect_lines],
                  find_line_crossings_and_latitude_lines(aspect_lines),
                  SessionBefore.module)

NextSession ==
    \/ SessionSplitDateline
    \/ SessionHorizonLine
    \/ SessionMeridianLine
    \/ SessionMcAspects
    \/ SessionFindCrossings

SpecSession == Init /\ [][NextSession]_vars

\* ----------------- claims, repeated calls
ssCalled == ss # NoCall
Calls == IF ssCalled THEN ss.calls ELSE <<>>
\* two calls of one generator with the same arguments return the same value
SameInputsSameOutput ==
    \A j \in 1..Len(Calls), k \in 1..Len(Calls) :
        (Calls[j].gen = Calls[k].gen /\ Calls[j].input = Calls[k].input)
            => Calls[j].output = Calls[k].output
InputsNotMutated ==
    \A k \in 1..Len(Calls) : Calls[k].input_after = Calls[k].input
\* the call went through warnings.warn
WarnedCall(c) == c.gen = "generate_horizon_line" /\ Abs(c.input.dec) > 90

====
